---- MODULE Spec2Model ----
(***************************************************************************)
(* A model of postcss-at-js: the interpretation engine (runtime), the      *)
(* programs the compiler synthesizes per container, and the value          *)
(* classification protocol.                                                *)
(*                                                                         *)
(* Text is modelled as a sequence of one-character strings.  A JavaScript  *)
(* value is a record with a tag t.  A document is a tree of child records; *)
(* a node is addressed by its path (the sequence of child indices).        *)
(***************************************************************************)
EXTENDS Integers, Sequences, FiniteSets, TLC

\* ------------------------------------------------------------------ bounds
\* guest operations per block-level fragment
MaxOps == 3
\* characters of a plain-object key
MaxKeyLen == 4
\* children of a nested container
MaxKids == 2

\* ------------------------------------------------------------- JS values
None == [t |-> "none"]
Undefined == [t |-> "undefined"]
Null == [t |-> "null"]
StrV(s) == [t |-> "string", s |-> s]
NumV(n) == [t |-> "number", n |-> n]
\* a guest function: calling it returns ret
FuncV(id, ret) == [t |-> "function", id |-> id, ret |-> ret]
\* an object: its prototype, its Symbol.asyncIterator / Symbol.iterator
\* property ("absent", "nonfunc" or "func") with the items each iterator
\* enumerates, its own enumerable entries, and its toString
ObjV(proto, ai, si, aitems, sitems, entries, tostr, str) ==
  [t |-> "object", proto |-> proto, ai |-> ai, si |-> si, aitems |-> aitems,
   sitems |-> sitems, entries |-> entries, tostr |-> tostr, str |-> str]
PlainV(entries) ==
  ObjV("Object", "absent", "absent", <<>>, <<>>, entries, "inherit", <<>>)
ArrayV(items) ==
  ObjV("Array", "absent", "func", <<>>, items, <<>>, "own", <<>>)
\* an iterable whose iterator gives results without done (TestIterable of
\* runtime.test.ts)
TestIterableV(items) ==
  ObjV("TestIterable", "absent", "func", <<>>, items, <<>>, "inherit", <<>>)
Entry(k, v) == [k |-> k, v |-> v]

\* document nodes made by the runtime
DeclNode(prop, value, src) ==
  [t |-> "node", type |-> "decl", prop |-> prop, value |-> value, src |-> src]
RuleNode(selector, nodes, semi, src) ==
  [t |-> "node", type |-> "rule", selector |-> selector, nodes |-> nodes,
   semi |-> semi, src |-> src]
AtRuleNode(name, params, block, nodes, semi, src) ==
  [t |-> "node", type |-> "atrule", name |-> name, params |-> params,
   block |-> block, nodes |-> nodes, semi |-> semi, src |-> src]

\* the position tag of an error (errorSymbol)
PosNone == [has |-> FALSE, at |-> <<>>]
Pos(p) == [has |-> TRUE, at |-> p]
NoErr == [kind |-> "none", of |-> None, pos |-> PosNone, obj |-> FALSE]
Err(kind, v, pos) == [kind |-> kind, of |-> v, pos |-> pos, obj |-> TRUE]

\* ---------------------------------------------------------------- utils.ts
isObject(arg) == arg.t \in {"object", "node", "block"}

isIterable(arg) ==
  \/ arg.t = "block"
  \/ /\ arg.t = "object"
     /\ (arg.ai = "func" \/ arg.si = "func")

NoIter == [kind |-> "none", items |-> <<>>, pos |-> 0]
ArrIter(items) == [kind |-> "arr", items |-> items, pos |-> 1]

\* iterator(iter): Symbol.asyncIterator in iter ? async : sync
iterator(arg) ==
  IF arg.ai # "absent"
    THEN [err |-> arg.ai # "func", iter |-> ArrIter(arg.aitems)]
    ELSE [err |-> arg.si # "func",
          iter |-> IF arg.proto = "TestIterable"
                     THEN [ArrIter(arg.sitems) EXCEPT !.kind = "nodone"]
                   ELSE ArrIter(arg.sitems)]
\* iter.next(): { done: false, value } and { done: true } of an array's
\* iterator; { value }, without done, of an iterator that leaves done out
\* until it is exhausted
IterResult(done, value) == [done |-> done, value |-> value]
iterNext(iter) ==
  IF iter.pos <= Len(iter.items)
    THEN IterResult(IF iter.kind = "nodone" THEN "undef" ELSE "false",
                    iter.items[iter.pos])
  ELSE IterResult("true", Undefined)

\* ------------------------------------------------------------ runtime.ts
isChildNode(arg) == arg.t = "node"

isPlainObject(arg) ==
  /\ arg.t = "object"
  /\ arg.proto \in {"Object", "null"}

isInterpretable(arg) ==
  isIterable(arg) \/ isPlainObject(arg) \/ isChildNode(arg)

hasOwnToString(arg) == ~isObject(arg) \/ arg.tostr # "inherit"

isStringifiableNoToStringTest(arg) ==
  /\ arg.t \notin {"null", "undefined"}
  /\ arg.t # "function"
  /\ ~isInterpretable(arg)
isStringifiable(arg) ==
  /\ arg.t \notin {"null", "undefined"}
  /\ arg.t # "function"
  /\ ~isInterpretable(arg)
  /\ hasOwnToString(arg)

Digit(d) == <<"0", "1", "2", "3", "4", "5", "6", "7", "8", "9">>[d + 1]
RECURSIVE NumStr(_)
NumStr(n) == IF n < 10 THEN <<Digit(n)>> ELSE NumStr(n \div 10) \o <<Digit(n % 10)>>

\* String(value) of a stringifiable value
String(v) ==
  CASE v.t = "string" -> v.s
    [] v.t = "number" -> NumStr(v.n)
    [] v.t = "boolean" -> IF v.b THEN <<"t", "r", "u", "e">> ELSE <<"f", "a", "l", "s", "e">>
    [] OTHER -> v.str

\* mergeRaws with the later raws alone
mergeRawsLaterOnly(semi1, semi2) == semi2
\* ContainerRawsEnd.semicolon: "undef", "true" or "false"
mergeRaws(semi1, semi2) ==
  IF semi2 = "undef" THEN semi1
  ELSE IF semi2 = "true" \/ semi1 = "true" THEN "true" ELSE "false"

\* Context.reflect: a node without a source takes the context's
reflect(node, src) == IF node.src = <<>> THEN [node EXCEPT !.src = src] ELSE node

\* the characters at which the at-rule name ends (runtime.ts, the regular
\* expression of interpretObject)
Whitespace == {"\t", "\n", "\f", "\r", " "}
MetaChars == {"\"", "#", "'", "(", ")", "/", ";", "[", "\\", "]", "{", "}"}

\* the index of the regular expression's first match in src, 0 if none
RECURSIVE MatchIndex(_, _)
MatchIndex(src, i) ==
  IF i > Len(src) THEN 0
  ELSE IF src[i] \in Whitespace \cup MetaChars THEN i
  ELSE MatchIndex(src, i + 1)

\* the length of the match at index i: a whitespace run, or the empty
\* lookahead before a meta character
RECURSIVE WsRun(_, _)
WsRun(src, i) ==
  IF i <= Len(src) /\ src[i] \in Whitespace THEN 1 + WsRun(src, i + 1) ELSE 0

AtRuleNameOneSpace(src) ==
  LET i == MatchIndex(src, 1)
  IN IF i = 0 THEN [name |-> src, params |-> <<>>]
     ELSE [name |-> SubSeq(src, 1, i - 1),
           params |-> SubSeq(src, i + (IF src[i] \in Whitespace THEN 1 ELSE 0), Len(src))]
AtRuleName(src) ==
  LET i == MatchIndex(src, 1)
  IN IF i = 0 THEN [name |-> src, params |-> <<>>]
     ELSE [name |-> SubSeq(src, 1, i - 1),
           params |-> SubSeq(src, i + WsRun(src, i), Len(src))]

Unexpected(v, pos) == Err("Unexpected", v, pos)
TypeError(v) == Err("TypeError", v, PosNone)

\* the result of interpreting a value: the nodes yielded before the end or
\* the error, and the error (NoErr on success)
Res(nodes, err) == [nodes |-> nodes, err |-> err]

RECURSIVE interpretUnknownFrom(_, _, _, _, _, _)
RECURSIVE interpretUnknownNext(_, _, _, _, _)
RECURSIVE interpretUnknownNextStrictDone(_, _, _, _, _)
RECURSIVE interpretEntries(_, _, _, _, _)

\* interpretObject's handling of one entry: the node it yields, or the error
interpretEntryAtUndefinedThrows(e, src, pos) ==
  IF Len(e.k) > 0 /\ e.k[1] = "@" THEN
      LET np == AtRuleName(Tail(e.k))
      IN IF isInterpretable(e.v) THEN
           LET r == interpretUnknownFrom(e.v, NoIter, <<>>, <<>>, src, pos)
           IN IF r.err # NoErr THEN Res(<<>>, r.err)
              ELSE Res(<<AtRuleNode(np.name, np.params, TRUE, r.nodes, "true", src)>>, NoErr)
         ELSE Res(<<>>, Unexpected(e.v, pos))
  ELSE IF isInterpretable(e.v) THEN
      LET r == interpretUnknownFrom(e.v, NoIter, <<>>, <<>>, src, pos)
      IN IF r.err # NoErr THEN Res(<<>>, r.err)
         ELSE Res(<<RuleNode(e.k, r.nodes, "true", src)>>, NoErr)
  ELSE IF isStringifiable(e.v) THEN
      Res(<<DeclNode(e.k, String(e.v), src)>>, NoErr)
  ELSE Res(<<>>, Unexpected(e.v, pos))
interpretEntry(e, src, pos) ==
  IF Len(e.k) > 0 /\ e.k[1] = "@" THEN
      LET np == AtRuleName(Tail(e.k))
      IN IF isInterpretable(e.v) THEN
           LET r == interpretUnknownFrom(e.v, NoIter, <<>>, <<>>, src, pos)
           IN IF r.err # NoErr THEN Res(<<>>, r.err)
              ELSE Res(<<AtRuleNode(np.name, np.params, TRUE, r.nodes, "true", src)>>, NoErr)
         ELSE IF e.v # Undefined THEN Res(<<>>, Unexpected(e.v, pos))
         ELSE Res(<<AtRuleNode(np.name, np.params, FALSE, <<>>, "undef", src)>>, NoErr)
  ELSE IF isInterpretable(e.v) THEN
      LET r == interpretUnknownFrom(e.v, NoIter, <<>>, <<>>, src, pos)
      IN IF r.err # NoErr THEN Res(<<>>, r.err)
         ELSE Res(<<RuleNode(e.k, r.nodes, "true", src)>>, NoErr)
  ELSE IF isStringifiable(e.v) THEN
      Res(<<DeclNode(e.k, String(e.v), src)>>, NoErr)
  ELSE Res(<<>>, Unexpected(e.v, pos))

\* interpretObject: the entries in order, from entry i
interpretEntries(entries, i, nodes, src, pos) ==
  IF i > Len(entries) THEN Res(nodes, NoErr)
  ELSE LET r == interpretEntry(entries[i], src, pos)
       IN IF r.err # NoErr THEN Res(nodes, r.err)
          ELSE interpretEntries(entries, i + 1, nodes \o r.nodes, src, pos)
interpretObject(obj, src, pos) == interpretEntries(obj.entries, 1, <<>>, src, pos)

\* interpretUnknown: the outer loop's body for arg, with its iterator and
\* the explicit stack of suspended iterators
interpretUnknownFrom(arg, iter, stack, nodes, src, pos) ==
  IF isIterable(arg) THEN
      LET it == iterator(arg)
      IN IF arg.t = "block" \/ it.err THEN Res(nodes, TypeError(arg))
         ELSE interpretUnknownNext(it.iter,
                IF iter # NoIter THEN Append(stack, iter) ELSE stack, nodes, src, pos)
  ELSE IF isPlainObject(arg) THEN
      LET r == interpretObject(arg, src, pos)
      IN IF r.err # NoErr THEN Res(nodes \o r.nodes, r.err)
         ELSE interpretUnknownNext(iter, stack, nodes \o r.nodes, src, pos)
  ELSE IF isChildNode(arg) THEN
      interpretUnknownNext(iter, stack, Append(nodes, reflect(arg, src)), src, pos)
  ELSE Res(nodes, Unexpected(arg, pos))

\* interpretUnknown: the inner loop, which advances the iterator and pops
\* the stack when it is done
\* the same with a result taken as not done only if its done is false
interpretUnknownNextStrictDone(iter, stack, nodes, src, pos) ==
  IF iter = NoIter THEN Res(nodes, NoErr)
  ELSE IF iterNext(iter).done = "false" THEN
      interpretUnknownFrom(iterNext(iter).value, [iter EXCEPT !.pos = @ + 1],
                           stack, nodes, src, pos)
  ELSE IF stack = <<>> THEN interpretUnknownNextStrictDone(NoIter, stack, nodes, src, pos)
  ELSE interpretUnknownNextStrictDone(stack[Len(stack)], SubSeq(stack, 1, Len(stack) - 1),
                                      nodes, src, pos)
interpretUnknownNext(iter, stack, nodes, src, pos) ==
  IF iter = NoIter THEN Res(nodes, NoErr)
  ELSE IF iterNext(iter).done # "true" THEN
      interpretUnknownFrom(iterNext(iter).value, [iter EXCEPT !.pos = @ + 1],
                           stack, nodes, src, pos)
  ELSE IF stack = <<>> THEN interpretUnknownNext(NoIter, stack, nodes, src, pos)
  ELSE interpretUnknownNext(stack[Len(stack)], SubSeq(stack, 1, Len(stack) - 1),
                            nodes, src, pos)

interpretUnknown(arg, src, pos) == interpretUnknownFrom(arg, NoIter, <<>>, <<>>, src, pos)

\* stringify: String(value) of a stringifiable value, else the error
stringify(value) ==
  IF ~isStringifiable(value) THEN [err |-> Unexpected(value, PosNone), s |-> <<>>]
  ELSE [err |-> NoErr, s |-> String(value)]

\* ------------------------------------------------------------- documents
\* A child of a container is one of
\*   [kind |-> "decl", file, prop, value]              a plain declaration
\*   [kind |-> "declJs", file, prop, ops, val]         prop: @js <expression>
\*   [kind |-> "js", file, ops, expr, val, hasBlock, kids, semi]
\*                                                     a block-level @js
\*   [kind |-> "rule", file, sel, kids, semi]          a rule; sel is its list
\*                                                     of selectors
\* and a guest operation is [op, v] with op one of "eff" (a side effect),
\* "yield" (yield v), "ret" (return), "throw" (throw v), "consume" (iterate
\* the attached block to its end, as in: for await (const _ of block) {}).
Op(op, v) == [op |-> op, v |-> v]
Decl(file, prop, value) == [kind |-> "decl", file |-> file, prop |-> prop, value |-> value]
DeclJs(file, prop, ops, val) ==
  [kind |-> "declJs", file |-> file, prop |-> prop, ops |-> ops, val |-> val]
Js(file, ops, expr, val, hasBlock, kids) ==
  [kind |-> "js", file |-> file, ops |-> ops, expr |-> expr, val |-> val,
   hasBlock |-> hasBlock, kids |-> kids, semi |-> "undef"]
Rule(file, sel, kids, semi) ==
  [kind |-> "rule", file |-> file, sel |-> sel, kids |-> kids, semi |-> semi]
\* a selector: literal text, or :@js(expression) with its effects and value
SelText(text) == [js |-> FALSE, text |-> text, ops |-> <<>>, val |-> None]
SelJs(ops, val) == [js |-> TRUE, text |-> <<>>, ops |-> ops, val |-> val]
\* the AsyncIterable a block attached to the @js at path `of` denotes; base
\* is the position of the operation that hands it to a consumer
BlockV(of) == [t |-> "block", of |-> of, base |-> <<>>]

KidsOf(n) == IF n.kind \in {"js", "rule"} THEN n.kids ELSE <<>>

RECURSIVE NodeAt(_, _)
NodeAt(kids, path) ==
  IF Len(path) = 1 THEN kids[path[1]]
  ELSE NodeAt(KidsOf(kids[path[1]]), Tail(path))

RECURSIVE SelText2(_, _)
\* rule.selector of a rule without :@js selectors
SelText2(sel, i) ==
  IF i > Len(sel) THEN <<>>
  ELSE sel[i].text \o (IF i < Len(sel) THEN <<",">> ELSE <<>>) \o SelText2(sel, i + 1)

RECURSIVE CloneKids(_, _, _)
\* node.clone() of a child that holds no guest code
CloneOf(n, path) ==
  IF n.kind = "decl" THEN DeclNode(n.prop, n.value, path)
  ELSE RuleNode(SelText2(n.sel, 1), CloneKids(n.kids, path, 1), n.semi, path)
CloneKids(kids, path, i) ==
  IF i > Len(kids) THEN <<>>
  ELSE <<CloneOf(kids[i], Append(path, i))>> \o CloneKids(kids, path, i + 1)

\* ------------------------------------------------------------ compile.ts
SelHasJs(n) == \E j \in 1..Len(n.sel) : n.sel[j].js

RECURSIVE HasCode(_, _)
\* compileContainerChildren: the child compiles to program text (Code)
IsCode(n, inAtJs) ==
  \/ n.kind \in {"js", "declJs"}
  \/ /\ n.kind = "rule"
     /\ (SelHasJs(n) \/ inAtJs \/ HasCode(n.kids, inAtJs))
\* compileContainer: hasCode
HasCode(kids, inAtJs) == \E i \in 1..Len(kids) : IsCode(kids[i], inAtJs)

\* compileContainer returns a program unless !hasCode && !inAtJs
ProgramExists(kids, inAtJs) == HasCode(kids, inAtJs) \/ inAtJs

\* compileContainerChildren: child i starts a new block, because its file
\* is not the current global scope
BlockStart(kids, inherited, i) ==
  kids[i].file # (IF i = 1 THEN inherited ELSE kids[i - 1].file)

RECURSIVE NextBlock(_, _, _)
\* the first child of the block after that of child i (a return leaves the
\* block's function), Len(kids) + 1 if there is none
NextBlock(kids, inherited, i) ==
  IF i + 1 > Len(kids) THEN Len(kids) + 1
  ELSE IF BlockStart(kids, inherited, i + 1) THEN i + 1
  ELSE NextBlock(kids, inherited, i + 1)

\* ------------------------------------------------------------------ state
VARIABLES
  doc,      \* the children of the document root
  status,   \* "compiled", "running", "ok" (run() resolved), "error" (rejected)
  stk,      \* the live generators and loops, consumers below producers
  ctl,      \* where control is, and the item, result or error in flight
  effects,  \* the guest side effects observed so far, each by its position
  calls,    \* the calls of guest functions made by mainLoop, in order
  proc,     \* the positions of the children whose program text was entered
  rets,     \* the block-level returns executed, each by its generator and child
  out,      \* the document root's child list
  failure,  \* the error run() rejected with
  inp,      \* the input of a sampled pure function
  res       \* and its result

vars == <<doc, status, stk, ctl, effects, calls, proc, rets, out, failure, inp, res>>

\* the markers of the interpretation stream
BeginJs(node, pos) == [t |-> "BeginJs", node |-> node, pos |-> pos]
EndJs(success) == [t |-> "EndJs", success |-> success]

GuestErr(v) == [kind |-> "guest", of |-> v, pos |-> PosNone, obj |-> isObject(v)]

\* the frame of one run of a container's program (the async generator that
\* compileContainer synthesizes): the container's path, the position base of
\* this run, the child i and the place pc in its code, the cursor variable
GenF(path, base, inAtJs, inh, own) ==
  [f |-> "gen", path |-> path, base |-> base, inAtJs |-> inAtJs, inh |-> inh,
   own |-> own, i |-> 1, pc |-> "child", k |-> 1, cursor |-> <<>>,
   caught |-> NoErr, sel |-> <<>>]

NextUndefined == [st |-> "undefined", v |-> None]
NextNull == [st |-> "null", v |-> None]
NextResult(v) == [st |-> "result", v |-> v]

\* the frame of one mainLoop: its variables func and next, its Context
\* (source, raws), the nodes it is about to yield (outbox) and the error that
\* follows them, and its consumer: "root" and "append" (appendNodes collects
\* acc), "all" (guest code iterates and drops), "iter" (the mainLoop own)
LoopF(owner, own, orig) ==
  [f |-> "loop", owner |-> owner, own |-> own, orig |-> orig, func |-> None,
   next |-> NextUndefined, src |-> <<>>, pos |-> PosNone, raws |-> "undef",
   outbox |-> <<>>, operr |-> NoErr, acc |-> <<>>]

\* the frame of an iterator over the items of a guest iterable
ArrF(items, own) == [f |-> "arr", items |-> items, pos |-> 1, own |-> own]

C(m, k) == [m |-> m, k |-> k, v |-> None, e |-> NoErr, raws |-> "undef"]
CItem(k, v) == [C("item", k) EXCEPT !.v = v]
CThrow(k, e) == [C("throw", k) EXCEPT !.e = e]
CDone(k, raws) == [C("done", k) EXCEPT !.raws = raws]

Top == stk[Len(stk)]
Pop(s) == SubSeq(s, 1, Len(s) - 1)
SetTop(s, fr) == [s EXCEPT ![Len(s)] = fr]

GKids(g) == IF g.path = <<>> THEN doc ELSE NodeAt(doc, g.path).kids
GSemi(g) == IF g.path = <<>> THEN "undef" ELSE NodeAt(doc, g.path).semi
GChild(g) == GKids(g)[g.i]
GAbs(g) == Append(g.path, g.i)
GTag(g) == Append(g.base, g.i)

\* the iterator a mainLoop at k pulls: the topmost frame it owns
HasIter(s, k) == \E j \in (k + 1)..Len(s) : s[j].own = k
TopIter(s, k) == CHOOSE j \in (k + 1)..Len(s) :
                   s[j].own = k /\ \A j2 \in (j + 1)..Len(s) : s[j2].own # k
\* await iter.next(): a generator or array iterator runs; a nested mainLoop
\* resumes where it yielded
Pull(s, k) == IF s[TopIter(s, k)].f = "loop" THEN C("resume", TopIter(s, k)) ELSE C("run", 0)

\* the effects of an expression fragment up to its first throw
RECURSIVE RunOps(_, _, _)
RunOps(ops, tag, k) ==
  IF k > Len(ops) THEN [tags |-> <<>>, thrown |-> None]
  ELSE IF ops[k].op = "throw" THEN [tags |-> <<>>, thrown |-> ops[k].v]
  ELSE LET r == RunOps(ops, tag, k + 1)
       IN [tags |-> <<Append(tag, k)>> \o r.tags, thrown |-> r.thrown]

\* coerceToExpr and stringify of one fragment: its effects, and the text or
\* the error
EvalExpr(ops, val, tag) ==
  LET r == RunOps(ops, tag, 1)
      st == stringify(val)
  IN IF r.thrown # None THEN [tags |-> r.tags, err |-> GuestErr(r.thrown), s |-> <<>>]
     ELSE [tags |-> r.tags, err |-> st.err, s |-> st.s]

\* compileSelector: the selectors left to right from selector j
RECURSIVE EvalSelRightToLeft(_, _, _)
EvalSelRightToLeft(sel, j, tag) ==
  IF j > Len(sel) THEN [tags |-> <<>>, err |-> NoErr, s |-> <<>>]
  ELSE LET rest == EvalSelRightToLeft(sel, j + 1, tag)
           one == IF sel[j].js THEN EvalExpr(sel[j].ops, sel[j].val, Append(tag, j))
                  ELSE [tags |-> <<>>, err |-> NoErr, s |-> sel[j].text]
       IN IF rest.err # NoErr THEN rest
          ELSE [tags |-> rest.tags \o one.tags, err |-> one.err,
                s |-> one.s \o (IF j < Len(sel) THEN <<",">> ELSE <<>>) \o rest.s]
RECURSIVE EvalSel(_, _, _)
EvalSel(sel, j, tag) ==
  IF j > Len(sel) THEN [tags |-> <<>>, err |-> NoErr, s |-> <<>>]
  ELSE LET one == IF sel[j].js THEN EvalExpr(sel[j].ops, sel[j].val, Append(tag, j))
                  ELSE [tags |-> <<>>, err |-> NoErr, s |-> sel[j].text]
       IN IF one.err # NoErr THEN one
          ELSE LET rest == EvalSel(sel, j + 1, tag)
               IN [tags |-> one.tags \o rest.tags, err |-> rest.err,
                   s |-> one.s \o (IF j < Len(sel) THEN <<",">> ELSE <<>>) \o rest.s]

\* getErrorPos reading the tag without removing it
getErrorPosKeepsTag(e) ==
  [pos |-> IF e.obj THEN e.pos ELSE PosNone, error |-> e]
\* getErrorPos: the tag of an object, which deleteProp removes from it
getErrorPos(e) ==
  [pos |-> IF e.obj THEN e.pos ELSE PosNone,
   error |-> IF e.obj THEN [e EXCEPT !.pos = PosNone] ELSE e]

handleErrorOverwrites(e, cursor) ==
  IF e.obj THEN [e EXCEPT !.pos = Pos(cursor)] ELSE e
\* handleError: tag the error with the cursor unless it is no object or is
\* tagged already
handleError(e, cursor) ==
  IF e.obj /\ ~e.pos.has THEN [e EXCEPT !.pos = Pos(cursor)] ELSE e

\* newContainer and appendNodes: a copy of the original with the collected
\* nodes; the iterator's raws merged under the original's
newContainer(path, nodes, raws) ==
  LET orig == NodeAt(doc, path)
      semi == mergeRaws(raws, orig.semi)
  IN RuleNode(SelText2(orig.sel, 1), nodes,
              IF semi # "undef" THEN semi ELSE orig.semi, path)

\* ----------------------------------------- the program of one container
\* (compileContainer, compileContainerChildren, compileAtJs: each action is
\* the program text up to its next yield, await or throw)
GenAt(pc) == ctl.m = "run" /\ stk # <<>> /\ Top.f = "gen" /\ Top.pc = pc
AtChild(kind) ==
  /\ GenAt("child")
  /\ Top.i <= Len(GKids(Top))
  /\ GChild(Top).kind = kind
AtOp(op) ==
  /\ GenAt("ops")
  /\ Top.k <= Len(GChild(Top).ops)
  /\ GChild(Top).ops[Top.k].op = op

Same == UNCHANGED <<doc, status, out, failure, inp, res>>

\* a yielded block value carries the position of the yield that hands it over
Handed(v, tag) == IF v.t = "block" THEN [v EXCEPT !.base = tag] ELSE v

\* return container.raws, at the end of the last block
GenReturn ==
  /\ GenAt("child")
  /\ Top.i > Len(GKids(Top))
  /\ stk' = Pop(stk)
  /\ ctl' = CDone(Top.own, GSemi(Top))
  /\ UNCHANGED <<effects, calls, proc, rets>>
  /\ Same

\* compileAtJs: cursor = offset; yield new BeginJs(atRule, offset, cursor)
GenBeginJs ==
  /\ AtChild("js")
  /\ stk' = SetTop(stk, [Top EXCEPT !.pc = "ops", !.k = 1, !.cursor = GAbs(Top)])
  /\ ctl' = CItem(Top.own, BeginJs(GAbs(Top), GAbs(Top)))
  /\ proc' = proc \cup {GTag(Top)}
  /\ UNCHANGED <<effects, calls, rets>>
  /\ Same

\* guest code: a side effect
GenEff ==
  /\ AtOp("eff")
  /\ effects' = Append(effects, Append(GTag(Top), Top.k))
  /\ stk' = SetTop(stk, [Top EXCEPT !.k = @ + 1])
  /\ UNCHANGED <<ctl, calls, proc, rets>>
  /\ Same

\* guest code: yield v
GenYield ==
  /\ AtOp("yield")
  /\ ctl' = CItem(Top.own, Handed(GChild(Top).ops[Top.k].v, Append(GTag(Top), Top.k)))
  /\ stk' = SetTop(stk, [Top EXCEPT !.k = @ + 1])
  /\ UNCHANGED <<effects, calls, proc, rets>>
  /\ Same

\* guest code: return, which leaves the function of the current block
GenGuestReturn ==
  /\ AtOp("ret")
  /\ stk' = SetTop(stk, [Top EXCEPT !.pc = "child",
                                    !.i = NextBlock(GKids(Top), Top.inh, Top.i)])
  /\ rets' = rets \cup {[base |-> Top.base, path |-> Top.path, inh |-> Top.inh, i |-> Top.i]}
  /\ UNCHANGED <<ctl, effects, calls, proc>>
  /\ Same

\* guest code: throw v
GenThrow ==
  /\ AtOp("throw")
  /\ ctl' = CThrow(Len(stk), GuestErr(GChild(Top).ops[Top.k].v))
  /\ UNCHANGED <<stk, effects, calls, proc, rets>>
  /\ Same

\* the same with a block that can be iterated once: a second iteration
\* finds it exhausted
GenConsumeOnce ==
  /\ AtOp("consume")
  /\ stk' = IF \E k \in 1..(Top.k - 1) : GChild(Top).ops[k].op = "consume"
              THEN SetTop(stk, [Top EXCEPT !.k = @ + 1])
            ELSE SetTop(stk, [Top EXCEPT !.pc = "await"])
                   \o <<LoopF("all", 0 - 1, GAbs(Top)),
                        GenF(GAbs(Top), Append(GTag(Top), Top.k), TRUE, GChild(Top).file,
                             Len(stk) + 1)>>
  /\ UNCHANGED <<ctl, effects, calls, proc, rets>>
  /\ Same
\* guest code: iterate the attached block to its end (interpretMain's
\* Symbol.asyncIterator starts a mainLoop over a fresh run of the block)
GenConsume ==
  /\ AtOp("consume")
  /\ stk' = SetTop(stk, [Top EXCEPT !.pc = "await"])
            \o <<LoopF("all", 0 - 1, GAbs(Top)),
                 GenF(GAbs(Top), Append(GTag(Top), Top.k), TRUE, GChild(Top).file,
                      Len(stk) + 1)>>
  /\ UNCHANGED <<ctl, effects, calls, proc, rets>>
  /\ Same

GenImplicitYieldDropsValue ==
  /\ GenAt("ops")
  /\ Top.k > Len(GChild(Top).ops)
  /\ GChild(Top).expr
  /\ ctl' = CItem(Top.own, Undefined)
  /\ stk' = SetTop(stk, [Top EXCEPT !.pc = "end"])
  /\ UNCHANGED <<effects, calls, proc, rets>>
  /\ Same
\* compileAtJs: the implicit yield ( ... ) of a fragment that is an expression
GenImplicitYield ==
  /\ GenAt("ops")
  /\ Top.k > Len(GChild(Top).ops)
  /\ GChild(Top).expr
  /\ ctl' = CItem(Top.own, Handed(GChild(Top).val, Append(GTag(Top), Top.k)))
  /\ stk' = SetTop(stk, [Top EXCEPT !.pc = "end"])
  /\ UNCHANGED <<effects, calls, proc, rets>>
  /\ Same

\* compileAtJs: yield new EndJs()
GenEndJs ==
  /\ \/ GenAt("end")
     \/ GenAt("ops") /\ Top.k > Len(GChild(Top).ops) /\ ~GChild(Top).expr
  /\ ctl' = CItem(Top.own, EndJs(TRUE))
  /\ stk' = SetTop(stk, [Top EXCEPT !.pc = "child", !.i = @ + 1])
  /\ UNCHANGED <<effects, calls, proc, rets>>
  /\ Same

\* a child without guest code: yield node.clone()
GenPlain ==
  /\ GenAt("child")
  /\ Top.i <= Len(GKids(Top))
  /\ ~IsCode(GChild(Top), Top.inAtJs)
  /\ ctl' = CItem(Top.own, CloneOf(GChild(Top), GAbs(Top)))
  /\ stk' = SetTop(stk, [Top EXCEPT !.i = @ + 1])
  /\ proc' = proc \cup {GTag(Top)}
  /\ UNCHANGED <<effects, calls, rets>>
  /\ Same

\* a declaration prop: @js expression: evaluate, clone, stringify, yield
GenDeclJs ==
  /\ AtChild("declJs")
  /\ LET r == EvalExpr(GChild(Top).ops, GChild(Top).val, GTag(Top))
     IN /\ effects' = effects \o r.tags
        /\ IF r.err # NoErr
             THEN /\ ctl' = CThrow(Len(stk), r.err)
                  /\ stk' = SetTop(stk, [Top EXCEPT !.cursor = GAbs(Top)])
             ELSE /\ ctl' = CItem(Top.own, DeclNode(GChild(Top).prop, r.s, GAbs(Top)))
                  /\ stk' = SetTop(stk, [Top EXCEPT !.cursor = GAbs(Top), !.i = @ + 1])
  /\ proc' = proc \cup {GTag(Top)}
  /\ UNCHANGED <<calls, rets>>
  /\ Same

\* a rule with guest code: its :@js selectors, left to right
GenRuleSel ==
  /\ AtChild("rule")
  /\ IsCode(GChild(Top), Top.inAtJs)
  /\ LET r == EvalSel(GChild(Top).sel, 1, Append(GTag(Top), 0))
         cur == IF SelHasJs(GChild(Top)) THEN GAbs(Top) ELSE Top.cursor
     IN /\ effects' = effects \o r.tags
        /\ IF r.err # NoErr
             THEN /\ ctl' = CThrow(Len(stk), r.err)
                  /\ stk' = SetTop(stk, [Top EXCEPT !.cursor = cur])
             ELSE /\ ctl' = ctl
                  /\ stk' = SetTop(stk, [Top EXCEPT !.cursor = cur, !.pc = "body",
                                                    !.sel = r.s])
  /\ proc' = proc \cup {GTag(Top)}
  /\ UNCHANGED <<calls, rets>>
  /\ Same

\* the rule's body: await newContainer(node, childCode), or node.clone()
\* when the body has no program
GenRuleBody ==
  /\ GenAt("body")
  /\ IF ProgramExists(GChild(Top).kids, Top.inAtJs)
       THEN /\ stk' = SetTop(stk, [Top EXCEPT !.pc = "await"])
                      \o <<LoopF("append", 0 - 1, GAbs(Top)),
                           GenF(GAbs(Top), GTag(Top), Top.inAtJs, GChild(Top).file,
                                Len(stk) + 1)>>
            /\ ctl' = ctl
       ELSE /\ stk' = SetTop(stk, [Top EXCEPT !.pc = "child", !.i = @ + 1])
            /\ ctl' = CItem(Top.own,
                 RuleNode(Top.sel, CloneKids(GChild(Top).kids, GAbs(Top), 1),
                          GChild(Top).semi, GAbs(Top)))
  /\ UNCHANGED <<effects, calls, proc, rets>>
  /\ Same

\* the awaited mainLoop has ended: the rule gets its selector and is
\* yielded; guest code that consumed a block goes on
GenResume ==
  /\ ctl.m = "ret"
  /\ Top.f = "gen" /\ Top.pc = "await"
  /\ IF GChild(Top).kind = "rule"
       THEN /\ ctl' = CItem(Top.own,
                 IF SelHasJs(GChild(Top)) THEN [ctl.v EXCEPT !.selector = Top.sel]
                 ELSE ctl.v)
            /\ stk' = SetTop(stk, [Top EXCEPT !.pc = "child", !.i = @ + 1])
       ELSE /\ ctl' = C("run", 0)
            /\ stk' = SetTop(stk, [Top EXCEPT !.pc = "ops", !.k = @ + 1])
  /\ UNCHANGED <<effects, calls, proc, rets>>
  /\ Same

\* catch (e) { yield new EndJs(false); ... }: only a container with guest
\* code has the try statement
GenCatch ==
  /\ ctl.m = "throw"
  /\ ctl.k = Len(stk) /\ ctl.k > 0
  /\ Top.f = "gen"
  /\ IF HasCode(GKids(Top), Top.inAtJs)
       THEN /\ ctl' = CItem(Top.own, EndJs(FALSE))
            /\ stk' = SetTop(stk, [Top EXCEPT !.pc = "rethrow", !.caught = ctl.e])
       ELSE /\ ctl' = CThrow(Top.own, ctl.e)
            /\ stk' = SubSeq(stk, 1, Top.own)
  /\ UNCHANGED <<effects, calls, proc, rets>>
  /\ Same

\* ... handleError(e, cursor) }
GenRethrow ==
  /\ GenAt("rethrow")
  /\ ctl' = CThrow(Top.own, handleError(Top.caught, Top.cursor))
  /\ stk' = SubSeq(stk, 1, Top.own)
  /\ UNCHANGED <<effects, calls, proc, rets>>
  /\ Same

\* next() of the iterator of a guest iterable
ArrNext ==
  /\ ctl.m = "run"
  /\ stk # <<>> /\ Top.f = "arr"
  /\ IF Top.pos <= Len(Top.items)
       THEN /\ ctl' = CItem(Top.own, Top.items[Top.pos])
            /\ stk' = SetTop(stk, [Top EXCEPT !.pos = @ + 1])
       ELSE /\ ctl' = CDone(Top.own, "undef")
            /\ stk' = Pop(stk)
  /\ UNCHANGED <<effects, calls, proc, rets>>
  /\ Same

\* ------------------------------------------------------------- mainLoop
\* a call of a guest function by mainLoop: arg is None for a call without
\* an argument
Call(fn, arg) == [fn |-> fn.id, arg |-> arg]

\* mainLoop, the choice of the value to classify: the item itself when no
\* function is held; func() or nothing at an EndJs; else func(item)
SelectValueIgnoresFunc(L, v) ==
  [value |-> v, func |-> L.func, next |-> NextUndefined, call |-> <<>>]
SelectValueCallsOnFailure(L, v) ==
  IF L.func = None
    THEN [value |-> v, func |-> None, next |-> NextUndefined, call |-> <<>>]
  ELSE IF v.t = "EndJs"
    THEN [value |-> L.func.ret, func |-> None, next |-> NextResult(v),
          call |-> <<Call(L.func, None)>>]
  ELSE [value |-> L.func.ret, func |-> None, next |-> NextNull,
        call |-> <<Call(L.func, v)>>]
SelectValue(L, v) ==
  IF L.func = None
    THEN [value |-> v, func |-> None, next |-> NextUndefined, call |-> <<>>]
  ELSE IF v.t = "EndJs"
    THEN [value |-> IF v.success THEN L.func.ret ELSE Undefined,
          func |-> None, next |-> NextResult(v),
          call |-> IF v.success THEN <<Call(L.func, None)>> ELSE <<>>]
  ELSE [value |-> L.func.ret, func |-> None, next |-> NextNull,
        call |-> <<Call(L.func, v)>>]

\* the outcome of a classification: the loop afterwards and the iterator
\* frames it pushes
Classified(L, push) == [L |-> L, push |-> push]
\* mainLoop's last case: throw await context.unexpected(value)
RejectedIgnored(value, L) == Classified(L, <<>>)
Rejected(value, L) == Classified([L EXCEPT !.operr = Unexpected(value, L.pos)], <<>>)
\* mainLoop, the classification of the value by the loop L at k over the
\* frames s
Classify(value, L, k, s) ==
  IF value.t = "BeginJs" THEN
    Classified([L EXCEPT !.src = value.node, !.pos = Pos(value.pos)], <<>>)
  ELSE IF value.t = "EndJs" THEN Classified(L, <<>>)
  ELSE IF isIterable(value) THEN
    IF value.t = "block" THEN
      Classified(L, <<LoopF("iter", k, value.of),
                      GenF(value.of, value.base, TRUE, NodeAt(doc, value.of).file,
                           Len(s) + 1)>>)
    ELSE IF iterator(value).err THEN
      Classified([L EXCEPT !.operr = TypeError(value)], <<>>)
    ELSE Classified(L, <<ArrF(iterator(value).iter.items, k)>>)
  ELSE IF isPlainObject(value) THEN
    LET r == interpretObject(value, L.src, L.pos)
    IN Classified([L EXCEPT !.outbox = r.nodes, !.operr = r.err,
                            !.raws = IF r.nodes # <<>> THEN "undef" ELSE @], <<>>)
  ELSE IF isChildNode(value) THEN
    Classified([L EXCEPT !.outbox = <<reflect(value, L.src)>>, !.raws = "undef"], <<>>)
  ELSE IF value.t = "function" THEN Classified([L EXCEPT !.func = value], <<>>)
  ELSE IF value = Undefined THEN Classified(L, <<>>)
  ELSE Rejected(value, L)

\* what the loop at k does after classifying: it yields the nodes to its
\* consumer (appendNodes collects them at once; a consuming mainLoop takes
\* them one by one), throws, handles the item it kept, or fetches the next
AfterYield(s, k) ==
  IF s[k].operr # NoErr THEN CThrow(k, s[k].operr)
  ELSE IF s[k].next.st = "result" THEN C("loop", k)
  ELSE Pull(s, k)
Settle(s, k) ==
  IF s[k].owner = "iter" THEN
    IF s[k].outbox # <<>>
      THEN [stk |-> [s EXCEPT ![k].outbox = Tail(@)],
            ctl |-> CItem(s[k].own, Head(s[k].outbox))]
      ELSE [stk |-> s, ctl |-> AfterYield(s, k)]
  ELSE LET s2 == [s EXCEPT ![k].acc = IF s[k].owner = "all" THEN @ ELSE @ \o s[k].outbox,
                           ![k].outbox = <<>>]
       IN [stk |-> s2, ctl |-> AfterYield(s2, k)]

\* one turn of mainLoop's loop on the item v
Turn(k, v) ==
  LET sv == SelectValue(stk[k], v)
      L1 == [stk[k] EXCEPT !.func = sv.func, !.next = sv.next]
      cl == Classify(sv.value, L1, k, stk)
      st == Settle([stk EXCEPT ![k] = cl.L] \o cl.push, k)
  IN /\ stk' = st.stk
     /\ ctl' = st.ctl
     /\ calls' = calls \o sv.call

\* next = await iter.next() has delivered an item
LoopItem ==
  /\ ctl.m = "item"
  /\ Turn(ctl.k, ctl.v)
  /\ UNCHANGED <<effects, proc, rets>>
  /\ Same

\* the loop comes round with the item it kept (an EndJs that found a
\* function held)
LoopAgain ==
  /\ ctl.m = "loop"
  /\ Turn(ctl.k, stk[ctl.k].next.v)
  /\ UNCHANGED <<effects, proc, rets>>
  /\ Same

\* a mainLoop that yielded a node to a consuming mainLoop is resumed
LoopResume ==
  /\ ctl.m = "resume"
  /\ stk' = Settle(stk, ctl.k).stk
  /\ ctl' = Settle(stk, ctl.k).ctl
  /\ UNCHANGED <<effects, calls, proc, rets>>
  /\ Same

\* the iterator is done: merge its raws, pop the stack, and return when the
\* stack is empty; the consumer goes on: appendNodes appends (run() then
\* replaces the root's children), a consuming mainLoop takes the result
LoopDone ==
  /\ ctl.m = "done"
  /\ LET k == ctl.k
         raws == mergeRaws(stk[k].raws, ctl.raws)
         s2 == [stk EXCEPT ![k].raws = raws]
     IN IF HasIter(stk, k)
          THEN /\ stk' = s2
               /\ ctl' = Pull(s2, k)
               /\ UNCHANGED <<status, out>>
          ELSE /\ stk' = SubSeq(stk, 1, k - 1)
               /\ CASE stk[k].owner = "root" ->
                         /\ ctl' = C("halt", 0)
                         /\ status' = "ok"
                         /\ out' = [st |-> "replaced", nodes |-> stk[k].acc]
                    [] stk[k].owner = "append" ->
                         /\ ctl' = [C("ret", 0) EXCEPT
                                      !.v = newContainer(stk[k].orig, stk[k].acc, raws)]
                         /\ UNCHANGED <<status, out>>
                    [] stk[k].owner = "all" ->
                         /\ ctl' = C("ret", 0)
                         /\ UNCHANGED <<status, out>>
                    [] OTHER ->
                         /\ ctl' = CDone(stk[k].own, raws)
                         /\ UNCHANGED <<status, out>>
  /\ UNCHANGED <<doc, failure, inp, res, effects, calls, proc, rets>>

\* the same for a run() that appends to the root itself: the nodes
\* collected before the error have replaced the root's children
LoopThrowAfterAppend ==
  /\ ctl.m = "throw"
  /\ ctl.k > 0
  /\ stk[ctl.k].f = "loop"
  /\ LET L == stk[ctl.k]
     IN CASE L.owner = "root" ->
               /\ stk' = <<>>
               /\ ctl' = C("halt", 0)
               /\ status' = "error"
               /\ failure' = ctl.e
               /\ out' = [st |-> "replaced", nodes |-> L.acc]
          [] L.owner = "iter" ->
               /\ stk' = SubSeq(stk, 1, L.own)
               /\ ctl' = CThrow(L.own, ctl.e)
               /\ UNCHANGED <<status, failure, out>>
          [] OTHER ->
               /\ stk' = SubSeq(stk, 1, ctl.k - 1)
               /\ ctl' = CThrow(ctl.k - 1, ctl.e)
               /\ UNCHANGED <<status, failure, out>>
  /\ UNCHANGED <<doc, inp, res, effects, calls, proc, rets>>
\* an error leaves mainLoop (its own, or its iterator's): it reaches the
\* consumer, and run() rejects when that is the root's appendNodes
LoopThrow ==
  /\ ctl.m = "throw"
  /\ ctl.k > 0
  /\ stk[ctl.k].f = "loop"
  /\ LET L == stk[ctl.k]
     IN CASE L.owner = "root" ->
               /\ stk' = <<>>
               /\ ctl' = C("halt", 0)
               /\ status' = "error"
               /\ failure' = ctl.e
          [] L.owner = "iter" ->
               /\ stk' = SubSeq(stk, 1, L.own)
               /\ ctl' = CThrow(L.own, ctl.e)
               /\ UNCHANGED <<status, failure>>
          [] OTHER ->
               /\ stk' = SubSeq(stk, 1, ctl.k - 1)
               /\ ctl' = CThrow(ctl.k - 1, ctl.e)
               /\ UNCHANGED <<status, failure>>
  /\ UNCHANGED <<doc, out, inp, res, effects, calls, proc, rets>>

\* evaluate: run() has thrown; const errorPos = getErrorPos(error)
EvaluateCatch ==
  /\ status = "error"
  /\ status' = "caught"
  /\ res' = [errorPos |-> getErrorPos(failure).pos]
  /\ failure' = getErrorPos(failure).error
  /\ UNCHANGED <<doc, stk, ctl, effects, calls, proc, rets, out, inp>>

\* run(): const nodes = await newContainer(root, childCode); ... or the
\* empty function when the root has no program
Run ==
  /\ status = "compiled"
  /\ IF ProgramExists(doc, FALSE)
       THEN /\ status' = "running"
            /\ stk' = <<LoopF("root", 0, <<>>), GenF(<<>>, <<>>, FALSE, "", 1)>>
            /\ ctl' = C("run", 0)
       ELSE /\ status' = "ok"
            /\ UNCHANGED <<stk, ctl>>
  /\ UNCHANGED <<doc, out, failure, inp, res, effects, calls, proc, rets>>

\* ------------------------------------------------- the documents explored
Seqs(S, n) == UNION {[1..m -> S] : m \in 0..n}

T(c) == <<c>>
\* { c: 'r' }, the mapping of one declaration
DeclObj == PlainV(<<Entry(T("c"), StrV(T("r")))>>)
\* x => ({ c: 'r' }), and a function that returns it
F1 == FuncV(1, DeclObj)
F2 == FuncV(2, F1)
ErrObj == ObjV("Error", "absent", "absent", <<>>, <<>>, <<>>, "own", T("E"))

\* one fragment at the root whose guest code yields, returns and throws,
\* alone or followed by a declaration of the same or of another file
GuestOps ==
  {Op("yield", F1), Op("yield", F2), Op("yield", DeclObj), Op("yield", Null),
   Op("throw", ErrObj), Op("ret", None)}
Fragments ==
  {Js("a", ops, FALSE, None, FALSE, <<>>) : ops \in Seqs(GuestOps, MaxOps)}
  \cup {Js("a", ops, TRUE, v, FALSE, <<>>) :
          ops \in Seqs(GuestOps \ {Op("ret", None)}, MaxOps - 1), v \in {Undefined, F1}}
Followers == {<<>>, <<Decl("a", T("p"), T("v"))>>, <<Decl("b", T("p"), T("v"))>>}
LoopDocs == {<<fr>> \o fo : fr \in Fragments, fo \in Followers}

\* a rule or an @js with a block, among siblings
Eff == Op("eff", None)
Leaves ==
  {Js("a", <<Eff>>, FALSE, None, FALSE, <<>>),
   Js("b", <<Eff>>, FALSE, None, FALSE, <<>>),
   Js("a", <<Eff, Op("ret", None)>>, FALSE, None, FALSE, <<>>),
   Decl("a", T("p"), T("v")),
   DeclJs("a", T("p"), <<Eff>>, StrV(T("v")))}
KidLists == Seqs(Leaves, MaxKids)
Sels ==
  {<<SelText(T("h"))>>,
   <<SelJs(<<Eff>>, StrV(T("s")))>>,
   <<SelText(T("h")), SelJs(<<Eff>>, StrV(T("s"))), SelJs(<<Eff>>, StrV(T("u")))>>}
\* guest code of an @js with a block at the root's child i: it consumes the
\* block between two effects, ignores it, yields it, or consumes it twice
BlockProgs(i) ==
  {[ops |-> <<Eff, Op("consume", None), Eff>>, expr |-> FALSE, val |-> None],
   [ops |-> <<Eff>>, expr |-> FALSE, val |-> None],
   [ops |-> <<Eff>>, expr |-> TRUE, val |-> BlockV(<<i>>)],
   [ops |-> <<Op("consume", None), Op("consume", None)>>, expr |-> FALSE, val |-> None]}
Containers(i) ==
  {Rule("a", sel, kids, "undef") : sel \in Sels, kids \in KidLists}
  \cup {Js("a", bp.ops, bp.expr, bp.val, TRUE, kids) :
          bp \in BlockProgs(i), kids \in KidLists}
Before == {<<>>, <<Js("a", <<Eff>>, FALSE, None, FALSE, <<>>)>>}
After ==
  {<<>>, <<Js("a", <<Eff>>, FALSE, None, FALSE, <<>>)>>, <<Decl("b", T("p"), T("v"))>>}
TreeDocs ==
  UNION {{pre \o <<c>> \o post : c \in Containers(Len(pre) + 1), post \in After} :
           pre \in Before}

\* one value, as the value of a block-level fragment, of a yield followed
\* by nothing, of a function called at the end of its region, of a property
\* value and of a pseudo selector
Marked(c) == PlainV(<<Entry(T(c), NumV(1))>>)
Objects ==
  {ObjV(proto, ai, si, <<Marked("a")>>, <<Marked("s")>>, <<Entry(T("e"), NumV(1))>>,
        "inherit", <<>>) :
     proto \in {"Object", "null", "Custom"},
     ai \in {"absent", "nonfunc", "func"}, si \in {"absent", "nonfunc", "func"}}
Values ==
  Objects
  \cup {Undefined, Null, StrV(T("x")), NumV(12), F1, F2, ErrObj,
        DeclNode(T("n"), T("v"), <<>>), PlainV(<<>>), ArrayV(<<>>),
        ArrayV(<<DeclObj, ArrayV(<<Marked("a")>>), Marked("s")>>),
        ArrayV(<<DeclObj, Null>>)}
ValueDocs ==
  UNION {{<<Js("a", <<>>, TRUE, v, FALSE, <<>>)>>,
          <<Js("a", <<Op("yield", v)>>, FALSE, None, FALSE, <<>>)>>,
          <<Js("a", <<>>, TRUE, FuncV(3, v), FALSE, <<>>), Decl("a", T("p"), T("v"))>>,
          <<DeclJs("a", T("p"), <<>>, v)>>,
          <<Rule("a", <<SelText(T("h")), SelJs(<<>>, v)>>, <<>>, "undef")>>} :
           v \in Values}

\* documents without guest code
PlainDocs ==
  {<<Decl("a", T("p"), T("v"))>>,
   <<Rule("a", <<SelText(T("h"))>>, <<Decl("a", T("p"), T("v"))>>, "undef")>>}

\* an explicit yield followed by the fragment's own value
ImplicitDocs ==
  {<<Js("a", <<Op("yield", DeclObj)>>, TRUE, Marked("a"), FALSE, <<>>)>>,
   <<Js("a", <<Op("yield", DeclObj), Op("yield", Marked("s"))>>, TRUE, Marked("a"),
        FALSE, <<>>)>>}

\* guest code that throws an object or a string, at the root or in a rule
Thrower(v) == Js("a", <<Eff, Op("throw", v)>>, FALSE, None, FALSE, <<>>)
ThrowDocs ==
  UNION {{<<Thrower(v)>>,
          <<Rule("a", <<SelText(T("h"))>>, <<Thrower(v)>>, "undef")>>,
          <<Js("a", <<Eff>>, FALSE, None, FALSE, <<>>),
            Rule("a", <<SelText(T("h"))>>, <<Decl("a", T("p"), T("v")), Thrower(v)>>, "undef")>>} :
           v \in {ErrObj, StrV(T("x"))}}

\* an @js with a block whose guest code injects the block twice
TwiceDocs ==
  {<<Js("a", <<Op("yield", BlockV(<<1>>)), Eff, Op("yield", BlockV(<<1>>))>>, FALSE, None,
        TRUE, kids)>> :
     kids \in {<<Decl("a", T("p"), T("v"))>>,
               <<Js("a", <<Eff>>, FALSE, None, FALSE, <<>>), Decl("a", T("p"), T("v"))>>,
               <<DeclJs("a", T("p"), <<Eff>>, StrV(T("v"))),
                 Js("b", <<Eff>>, TRUE, DeclObj, FALSE, <<>>)>>}}

\* a fragment that yields a function and returns, before a fragment of
\* another file
ReturnDocs ==
  {<<Js("a", <<Op("yield", F1), Op("ret", None)>>, FALSE, None, FALSE, <<>>),
     Js("b", ops, FALSE, None, FALSE, <<>>)>> :
     ops \in {<<Eff>>, <<Op("yield", DeclObj)>>}}

\* an array, yielded or the fragment's value, that enumerates a value that
\* is not interpretable before a mapping
EnumeratingDocs ==
  UNION {{<<Js("a", <<Op("yield", ArrayV(<<v, DeclObj>>))>>, FALSE, None, FALSE, <<>>)>>,
          <<Js("a", <<>>, TRUE, ArrayV(<<ArrayV(<<v>>), DeclObj>>), FALSE, <<>>)>>} :
           v \in {Undefined, Null, F1, StrV(T("x"))}}

Docs ==
  LoopDocs \cup TreeDocs \cup ValueDocs \cup PlainDocs \cup ImplicitDocs \cup ThrowDocs
    \cup EnumeratingDocs \cup TwiceDocs \cup ReturnDocs

\* --------------------------------------------------------- specification
Init ==
  /\ doc \in Docs
  /\ status = "compiled"
  /\ stk = <<>>
  /\ ctl = C("idle", 0)
  /\ effects = <<>>
  /\ calls = <<>>
  /\ proc = {}
  /\ rets = {}
  /\ out = [st |-> "orig", nodes |-> <<>>]
  /\ failure = NoErr
  /\ inp = None
  /\ res = None

Next ==
  \/ Run
  \/ GenReturn \/ GenBeginJs \/ GenEff \/ GenYield \/ GenGuestReturn
  \/ GenThrow \/ GenConsume \/ GenImplicitYield \/ GenEndJs \/ GenPlain
  \/ GenDeclJs \/ GenRuleSel \/ GenRuleBody \/ GenResume \/ GenCatch
  \/ GenRethrow \/ ArrNext
  \/ LoopItem \/ LoopAgain \/ LoopResume \/ LoopDone \/ LoopThrow
  \/ EvaluateCatch

Spec == Init /\ [][Next]_vars

\* ------------------------------------- interpretObject on sampled mappings
KeyChars == {"@", "m", " ", "\t", "("}
Keys == Seqs(KeyChars, MaxKeyLen)
NoToString == ObjV("Custom", "absent", "absent", <<>>, <<>>, <<>>, "inherit", <<>>)
EntryValues ==
  {Undefined, Null, StrV(T("x")), NumV(12), F1, ErrObj, NoToString,
   DeclNode(T("n"), T("v"), <<>>), PlainV(<<>>), DeclObj,
   ArrayV(<<>>), ArrayV(<<DeclObj, ArrayV(<<Marked("a")>>)>>), ArrayV(<<Null>>)}
Mappings ==
  {PlainV(<<Entry(k, v)>>) : k \in Keys, v \in EntryValues}
  \cup {PlainV(<<Entry(T("p"), v1), Entry(k2, v2)>>) :
          v1 \in {StrV(T("x")), Null},
          k2 \in {<<"@", "m">>, T("q")}, v2 \in EntryValues}

InitObj ==
  /\ inp \in Mappings
  /\ res = None
  /\ status = "sampled"
  /\ doc = <<>>
  /\ stk = <<>>
  /\ ctl = C("idle", 0)
  /\ effects = <<>>
  /\ calls = <<>>
  /\ proc = {}
  /\ rets = {}
  /\ out = [st |-> "orig", nodes |-> <<>>]
  /\ failure = NoErr

\* yield* interpretObject(value, context), in a context without a source
InterpretObjectStep ==
  /\ status = "sampled"
  /\ res' = interpretObject(inp, <<>>, PosNone)
  /\ status' = "applied"
  /\ UNCHANGED <<doc, stk, ctl, effects, calls, proc, rets, out, failure, inp>>

NextObj == InterpretObjectStep

SpecObj == InitObj /\ [][NextObj]_vars

\* ---------------------------------------------- text (JavaScript strings)
\* String.prototype.slice, startsWith, endsWith, indexOf, includes, trim;
\* indices count from 0 as in the source
Slice(s, a, b) == SubSeq(s, a + 1, b)
startsWith(s, p) == Len(p) <= Len(s) /\ SubSeq(s, 1, Len(p)) = p
endsWith(s, p) == Len(p) <= Len(s) /\ SubSeq(s, Len(s) - Len(p) + 1, Len(s)) = p
indexOf(s, sub, from) ==
  LET found == {i \in from..(Len(s) - Len(sub)) : Slice(s, i, i + Len(sub)) = sub}
  IN IF found = {} THEN 0 - 1 ELSE CHOOSE i \in found : \A j \in found : i <= j
includes(s, sub) == indexOf(s, sub, 0) >= 0
RECURSIVE trimStart(_)
trimStart(s) == IF s # <<>> /\ Head(s) \in Whitespace THEN trimStart(Tail(s)) ELSE s
RECURSIVE trimEnd(_)
trimEnd(s) ==
  IF s # <<>> /\ s[Len(s)] \in Whitespace THEN trimEnd(SubSeq(s, 1, Len(s) - 1)) ELSE s
trim(s) == trimEnd(trimStart(s))
Repeat(c, n) == [i \in 1..n |-> c]

AtJs == <<"@", "j", "s">>
PseudoJs == <<":", "@", "j", "s", "(">>
Quotes == {"'", "\""}

\* rule.selectors: the selector split at its commas outside quotes and
\* parentheses, each part trimmed, an empty part kept only at the end
NoSplit ==
  [array |-> <<>>, current |-> <<>>, func |-> 0, inQuote |-> FALSE, prevQuote |-> "",
   escape |-> FALSE]
RECURSIVE split(_, _, _)
split(s, i, st) ==
  IF i > Len(s) THEN Append(st.array, trim(st.current))
  ELSE LET c == s[i]
           plain == ~st.escape /\ c # "\\" /\ ~st.inQuote /\ c \notin Quotes
           st1 == IF st.escape THEN [st EXCEPT !.escape = FALSE]
                  ELSE IF c = "\\" THEN [st EXCEPT !.escape = TRUE]
                  ELSE IF st.inQuote
                    THEN IF c = st.prevQuote THEN [st EXCEPT !.inQuote = FALSE] ELSE st
                  ELSE IF c \in Quotes THEN [st EXCEPT !.inQuote = TRUE, !.prevQuote = c]
                  ELSE IF c = "(" THEN [st EXCEPT !.func = @ + 1]
                  ELSE IF c = ")" THEN [st EXCEPT !.func = IF @ > 0 THEN @ - 1 ELSE @]
                  ELSE st
       IN IF plain /\ c \notin {"(", ")"} /\ st.func = 0 /\ c = ","
            THEN split(s, i + 1,
                   [st1 EXCEPT !.array = IF st.current # <<>>
                                           THEN Append(@, trim(st.current)) ELSE @,
                               !.current = <<>>])
            ELSE split(s, i + 1, [st1 EXCEPT !.current = Append(@, c)])
selectors(selector) == split(selector, 1, NoSplit)

\* a compile-time error: cssSyntaxError(message, node, offset), at the
\* document offset node.source.start.offset + offset
NoCssError == [t |-> "none", message |-> "", offset |-> 0]
cssSyntaxError(message, start, offset) ==
  [t |-> "CssSyntaxError", message |-> message, offset |-> start + offset]

\* checkInvalidAtJs, the end of the quoted string that opens at i: the
\* index of its closing quote, 0 when the pattern does not match at i
RECURSIVE quotedEnd(_, _, _)
quotedEnd(s, q, j) ==
  IF j > Len(s) THEN 0
  ELSE IF s[j] = q THEN j
  ELSE IF s[j] = "\\" THEN IF j + 1 > Len(s) THEN 0 ELSE quotedEnd(s, q, j + 2)
  ELSE quotedEnd(s, q, j + 1)
\* src.replace(/(?<!\\)(?:'(?:[^\\']+|\\.)*'|"(?:[^\\"]+|\\.)*")/g, mask)
maskNothing(s, i) == s
RECURSIVE mask(_, _)
mask(s, i) ==
  IF i > Len(s) THEN <<>>
  ELSE IF /\ s[i] \in Quotes
          /\ (i = 1 \/ s[i - 1] # "\\")
          /\ quotedEnd(s, s[i], i + 1) > 0
    THEN Repeat("*", quotedEnd(s, s[i], i + 1) - i + 1)
           \o mask(s, quotedEnd(s, s[i], i + 1) + 1)
  ELSE <<s[i]>> \o mask(s, i + 1)
checkInvalidAtJs(src, start, offset) ==
  LET i == indexOf(mask(src, 1), AtJs, 0)
  IN IF i >= 0 THEN cssSyntaxError("invalid use of @js", start, offset + i)
     ELSE NoCssError

\* ------------------------------------------------- syntax.ts: userCode
ImportWord == <<"i", "m", "p", "o", "r", "t">>
WordChars ==
  {"a", "c", "d", "e", "f", "h", "i", "j", "k", "l", "m", "n", "o", "p", "r", "s",
   "t", "u", "x", "y", "_"}
\* /\bimport\b/.test(code)
hasImportWord(code) ==
  \E i \in 0..(Len(code) - 6) :
    /\ Slice(code, i, i + 6) = ImportWord
    /\ (i = 0 \/ code[i] \notin WordChars)
    /\ (i + 6 = Len(code) \/ code[i + 7] \notin WordChars)

\* the length of 'async function* f(){\n', the prefix of the statement attempt
StmtPrefixLen == 21
\* the block stub: '({\n})'
Stub == <<"(", "{", "\n", "}", ")">>

\* What the JavaScript engine and acorn make of a fragment: expr and stmt
\* are the outcomes of Function(test) for the two attempts (TRUE: compiles);
\* pos is the position acorn.parse reports in the statement attempt's test
\* text (-1: none); alone tells whether acorn.parse accepts the fragment on
\* its own, and imports are the starts of its ImportExpression nodes.
LetX == <<"l", "e", "t", " ", "x">>
ImportX == ImportWord \o <<"(", "x", ")">>
AwaitImportX == <<"a", "w", "a", "i", "t", " ">> \o ImportX
YieldImportX == <<"y", "i", "e", "l", "d", " ">> \o ImportX
LetImportant == <<"l", "e", "t", " ">> \o ImportWord \o <<"a", "n", "t">>
Fact(code, stub, expr, stmt, pos, alone, imports) ==
  [code |-> code, stub |-> stub, expr |-> expr, stmt |-> stmt, pos |-> pos,
   alone |-> alone, imports |-> imports]
GuestSyntax ==
  { \* x            an expression
    Fact(<<"x">>, <<>>, TRUE, TRUE, 0 - 1, TRUE, <<>>),
    \* x,y          a sequence expression
    Fact(<<"x", ",", "y">>, <<>>, TRUE, TRUE, 0 - 1, TRUE, <<>>),
    \* (nothing)    an empty statement sequence
    Fact(<<>>, <<>>, FALSE, TRUE, 0 - 1, TRUE, <<>>),
    \* x x          neither: acorn stops at the second identifier
    Fact(<<"x", " ", "x">>, <<>>, FALSE, FALSE, StmtPrefixLen + 2, FALSE, <<>>),
    \* x ({})       with the block stub: a call
    Fact(<<"x">>, Stub, TRUE, TRUE, 0 - 1, TRUE, <<>>),
    \* ({})         the block stub alone: an object
    Fact(<<>>, Stub, TRUE, TRUE, 0 - 1, TRUE, <<>>),
    \* x x ({})     neither
    Fact(<<"x", " ", "x">>, Stub, FALSE, FALSE, StmtPrefixLen + 2, FALSE, <<>>),
    \* let x        a declaration: a statement only
    Fact(LetX, <<>>, FALSE, TRUE, 0 - 1, TRUE, <<>>),
    \* let x({})    neither: acorn stops at the parenthesis of the stub
    Fact(LetX, Stub, FALSE, FALSE, StmtPrefixLen + 5, FALSE, <<>>),
    \* import(x)    a dynamic import
    Fact(ImportX, <<>>, TRUE, TRUE, 0 - 1, TRUE, <<0>>),
    \* await import(x)
    Fact(AwaitImportX, <<>>, TRUE, TRUE, 0 - 1, TRUE, <<6>>),
    \* yield import(x): valid in the generator the attempts wrap it in; on
    \* its own yield is an identifier and acorn throws at import
    Fact(YieldImportX, <<>>, TRUE, TRUE, 0 - 1, FALSE, <<>>),
    \* let important  no import keyword
    Fact(LetImportant, <<>>, FALSE, TRUE, 0 - 1, TRUE, <<>>) }
\* a fragment whose first parenthesis closes what it never opened: neither
\* attempt compiles, and acorn stops at that parenthesis
Unbalanced(code) ==
  /\ includes(code, <<")">>)
  /\ (includes(code, <<"(">>) => indexOf(code, <<")">>, 0) < indexOf(code, <<"(">>, 0))
Known(code, stub) ==
  \/ \E f \in GuestSyntax : f.code = code /\ f.stub = stub
  \/ Unbalanced(code)
Syntax(code, stub) ==
  IF \E f \in GuestSyntax : f.code = code /\ f.stub = stub
    THEN CHOOSE f \in GuestSyntax : f.code = code /\ f.stub = stub
  ELSE Fact(code, stub, FALSE, FALSE, StmtPrefixLen + indexOf(code, <<")">>, 0), FALSE, <<>>)

\* a piece of the code userCode returns: text at an offset within the
\* fragment, or the import function put in the place of an import keyword
Piece(s, at) == [s |-> s, at |-> at, fn |-> FALSE]
ImportFn(at) == [s |-> <<>>, at |-> at, fn |-> TRUE]
UserCode(err, raw, expr, code) == [err |-> err, raw |-> raw, expr |-> expr, code |-> code]

\* replaceImport: the slices of the fragment after each import keyword
RECURSIVE importSlices(_, _, _)
importSlices(src, starts, i) ==
  IF i > Len(starts) THEN <<>>
  ELSE LET beg == starts[i] + 6
           end == IF i < Len(starts) THEN starts[i + 1] ELSE Len(src)
       IN <<ImportFn(starts[i]), Piece(Slice(src, beg, end), beg)>>
            \o importSlices(src, starts, i + 1)
\* replaceImport: raw is TRUE when acorn's parse of the fragment throws
replaceImport(code, syn, acorn, file) ==
  IF ~hasImportWord(code) \/ ~file \/ acorn = "absent"
    THEN UserCode(NoCssError, FALSE, FALSE, <<Piece(code, 0)>>)
  ELSE IF ~syn.alone
    THEN UserCode(NoCssError, TRUE, FALSE, <<>>)
  ELSE IF syn.imports = <<>>
    THEN UserCode(NoCssError, FALSE, FALSE, <<Piece(code, 0)>>)
  ELSE UserCode(NoCssError, FALSE, FALSE,
                <<Piece(Slice(code, 0, syn.imports[1]), 0)>>
                  \o importSlices(code, syn.imports, 1))

\* userCode(at, offset, sourceCode, stub), at a node that starts at `start`
userCode(start, offset, sourceCode, stub, acorn, file) ==
  LET syn == Syntax(sourceCode, stub)
      pos == IF acorn = "present" /\ syn.pos >= 0 THEN syn.pos ELSE StmtPrefixLen
      rep == replaceImport(sourceCode, syn, acorn, file)
  IN IF syn.expr THEN [rep EXCEPT !.expr = TRUE]
     ELSE IF syn.stmt THEN [rep EXCEPT !.expr = FALSE]
     ELSE UserCode(cssSyntaxError("SyntaxError", start, offset + pos - StmtPrefixLen),
                   FALSE, FALSE, <<>>)

\* -------------------------------------- compile.ts on one node's text
\* the value a guest expression evaluates to
GuestValue(exp) ==
  IF exp = <<"x">> THEN StrV(<<"k">>)
  ELSE IF exp = <<"x", ",", "y">> THEN StrV(<<"m", ",", "n">>)
  ELSE Undefined

\* what compiling one node gives: the error thrown (err, or raw for an
\* error that is no CssSyntaxError), and for a rule with :@js selectors the
\* literal slices (strings) and the expressions between them
Compiled(err, raw, js, strings, exprs) ==
  [err |-> err, raw |-> raw, js |-> js, strings |-> strings, exprs |-> exprs,
   isExpr |-> FALSE, code |-> <<>>]
Passed == Compiled(NoCssError, FALSE, FALSE, <<>>, <<>>)
Failed(err) == Compiled(err, FALSE, FALSE, <<>>, <<>>)
OfUserCode(u, exp) ==
  [Compiled(u.err, u.raw, TRUE, <<>>, <<exp>>) EXCEPT !.isExpr = u.expr, !.code = u.code]

\* compileSelector: const start = rule.selector.indexOf(selector, cursor)
selectorStartFromZero(text, selector, cursor) == indexOf(text, selector, 0)
selectorStart(text, selector, cursor) == indexOf(text, selector, cursor)

\* compileSelector, the loop over rule.selectors from the k-th
RECURSIVE compileSelectorFrom(_, _, _, _, _, _, _)
compileSelectorFrom(rule, sels, k, cut, cursor, strings, exprs) ==
  IF k > Len(sels)
    THEN Compiled(NoCssError, FALSE, TRUE,
                  Append(strings, Slice(rule.text, cut, Len(rule.text))), exprs)
  ELSE LET selector == sels[k]
           start == selectorStart(rule.text, selector, cursor)
           next == start + Len(selector)
       IN IF startsWith(selector, PseudoJs) /\ endsWith(selector, <<")">>)
            THEN LET exp == Slice(selector, 5, Len(selector) - 1)
                     u == userCode(rule.start, start + 5, exp, <<>>, rule.acorn, rule.file)
                 IN IF u.err # NoCssError \/ u.raw THEN OfUserCode(u, exp)
                    ELSE compileSelectorFrom(rule, sels, k + 1, next, next,
                           Append(strings, Slice(rule.text, cut, start)),
                           Append(exprs, exp))
          ELSE LET e == checkInvalidAtJs(selector, rule.start, start)
               IN IF e # NoCssError THEN Failed(e)
                  ELSE compileSelectorFrom(rule, sels, k + 1, cut, next, strings, exprs)
compileSelector(rule) ==
  IF ~includes(rule.text, AtJs) THEN Passed
  ELSE compileSelectorFrom(rule, selectors(rule.text), 1, 0, 0, <<>>, <<>>)

\* the declaration and the at-rule a sampled text is part of
DeclProp == <<"p">>
DeclBetween == <<":", " ">>
\* valueOffset, paramsOffset (raws.afterName is one space)
valueOffset(prop) == Len(prop \o DeclBetween)
paramsOffset(name) == Len(<<"@">> \o name \o <<" ">>)

\* /^@js(?:\s+|(?=["#'()/;[\\\]{}])|$)/.exec(node.value): the length of the
\* match, -1 if there is none
declMarker(value) ==
  IF ~startsWith(value, AtJs) THEN 0 - 1
  ELSE IF Len(value) = 3 THEN 3
  ELSE IF value[4] \in Whitespace THEN 3 + WsRun(value, 4)
  ELSE IF value[4] \in MetaChars THEN 3
  ELSE 0 - 1

\* compileContainerChildren, the case of one child: a rule (its selector),
\* a declaration (its prop, then its value) or an at-rule that is no @js
\* (its params), and compileAtJs for an @js at-rule
compileNode(n) ==
  CASE n.kind = "selector" -> compileSelector(n)
    [] n.kind = "prop" -> Failed(checkInvalidAtJs(n.text, n.start, 0))
    [] n.kind = "value" ->
         IF declMarker(n.text) >= 0
           THEN LET exp == Slice(n.text, declMarker(n.text), Len(n.text))
                IN OfUserCode(userCode(n.start, valueOffset(DeclProp) + declMarker(n.text),
                                       exp, <<>>, n.acorn, n.file), exp)
         ELSE Failed(checkInvalidAtJs(n.text, n.start, valueOffset(DeclProp)))
    [] n.kind = "params" -> Failed(checkInvalidAtJs(n.text, n.start, paramsOffset(<<"m">>)))
    [] OTHER -> OfUserCode(userCode(n.start, paramsOffset(<<"j", "s">>), n.text, n.stub, n.acorn, n.file),
                           n.text)

\* fragments.join(''), each expression's value stringified in its place
RECURSIVE joinFragments(_, _, _)
joinFragments(strings, exprs, i) ==
  IF i > Len(exprs) THEN strings[i]
  ELSE strings[i] \o stringify(GuestValue(exprs[i])).s \o joinFragments(strings, exprs, i + 1)

\* ------------------------------------------ the compiler on sampled texts
MaxPieces == 4
RECURSIVE Flatten(_)
Flatten(ps) == IF ps = <<>> THEN <<>> ELSE Head(ps) \o Flatten(Tail(ps))
\* the character at index j is escaped by a backslash
RECURSIVE escapedAt(_, _)
escapedAt(s, j) == j > 1 /\ s[j - 1] = "\\" /\ ~escapedAt(s, j - 1)
\* the parser's tokenizer accepts the text from index i on: every quote
\* that opens a string has its closing quote, no backslash is left dangling
RECURSIVE Tokenizable(_, _)
Tokenizable(s, i) ==
  IF i > Len(s) THEN TRUE
  ELSE IF s[i] = "\\" THEN i < Len(s) /\ Tokenizable(s, i + 2)
  ELSE IF s[i] \in Quotes
    THEN LET ends == {j \in (i + 1)..Len(s) : s[j] = s[i] /\ ~escapedAt(s, j)}
         IN ends # {} /\ Tokenizable(s, 1 + (CHOOSE j \in ends : \A k \in ends : j <= k))
  ELSE Tokenizable(s, i + 1)
Texts(pieces) ==
  {t \in {Flatten(ps) : ps \in Seqs(pieces, MaxPieces)} : Tokenizable(t, 1)}
JsX == PseudoJs \o <<"x", ")">>
JsXY == PseudoJs \o <<"x", ",", "y", ")">>
SelPieces == {<<"h">>, <<",">>, <<" ">>, JsX, JsXY, AtJs, <<"'">>}
PlainPieces == {<<"a">>, AtJs, <<"'">>, <<"\"">>, <<"\\">>}
ValuePieces == PlainPieces \cup {<<" ">>, <<"x">>, <<"x", " ", "x">>}
\* the guest code of block-level fragments
GuestCodes ==
  {<<>>, <<"x">>, <<"x", " ", "x">>, LetX, ImportX, AwaitImportX, YieldImportX, LetImportant}
\* a node of the document by the text the compiler examines: a rule by its
\* selector, a declaration by its prop or its value, an at-rule by its
\* params; start is the node's offset in the document, hack the IE hack
\* character the parser keeps in raws.before
Node(kind, text, start, hack, stub, acorn, file) ==
  [kind |-> kind, text |-> text, start |-> start, hack |-> hack, stub |-> stub,
   acorn |-> acorn, file |-> file]
Starts == {0, 2}
Sources ==
  {Node("selector", t, 0, <<>>, <<>>, "present", TRUE) : t \in Texts(SelPieces)}
  \cup {Node(k, t, s, <<>>, <<>>, "present", TRUE) :
          k \in {"prop", "params"}, t \in Texts(PlainPieces), s \in Starts}
  \cup {Node("value", t, s, h, <<>>, "present", TRUE) :
          t \in {v \in Texts(ValuePieces) :
                   declMarker(v) >= 0 => Known(Slice(v, declMarker(v), Len(v)), <<>>)},
          s \in Starts, h \in {<<>>, <<"*">>}}
  \cup {n \in {Node("guest", t, s, <<>>, stub, acorn, file) :
                  t \in GuestCodes, s \in Starts, stub \in {<<>>, Stub},
                  acorn \in {"present", "absent"}, file \in BOOLEAN} :
          Known(n.text, n.stub)}

InitText ==
  /\ inp \in Sources
  /\ res = None
  /\ status = "parsed"
  /\ doc = <<>>
  /\ stk = <<>>
  /\ ctl = C("idle", 0)
  /\ effects = <<>>
  /\ calls = <<>>
  /\ proc = {}
  /\ rets = {}
  /\ out = [st |-> "orig", nodes |-> inp.text]
  /\ failure = NoErr

\* compile(): the node is compiled, or the compilation fails
CompileNode ==
  /\ status = "parsed"
  /\ res' = compileNode(inp)
  /\ status' = IF res'.err # NoCssError \/ res'.raw THEN "failed" ELSE "compiled"
  /\ UNCHANGED <<doc, stk, ctl, effects, calls, proc, rets, out, failure, inp>>

\* run(): the rule's copy gets its selector, the declaration's copy its
\* value; the program of a document without guest code is
\* async function() {}
RunNode ==
  /\ status = "compiled"
  /\ inp.kind # "guest"
  /\ IF res.js
       THEN LET r == IF inp.kind = "selector"
                       THEN [err |-> NoErr, s |-> joinFragments(res.strings, res.exprs, 1)]
                     ELSE stringify(GuestValue(res.exprs[1]))
            IN /\ out' = [st |-> "replaced", nodes |-> r.s]
               /\ failure' = r.err
               /\ status' = IF r.err # NoErr THEN "error" ELSE "ok"
     ELSE /\ status' = "ok"
          /\ UNCHANGED <<out, failure>>
  /\ UNCHANGED <<doc, stk, ctl, effects, calls, proc, rets, inp, res>>

NextText == CompileNode \/ RunNode

SpecText == InitText /\ [][NextText]_vars


\* ------------------------------------------------- the scopes of globals
\* (compile, compileContainer, compileContainerChildren, loadGlobals: the
\* walk over the document that opens a block of globals whenever the file of
\* a child differs from the scope of the context)
\* nodes of the sampled documents, all levels together
MaxScopeNodes == 3
\* node.source.input.file: a path, or "none" for a source without file
ScopeFiles == {"a", "b", "none"}
\* the scope compile() starts with, which is no file
InitialScope == ""
\* a child by its file and its children
Nd(file, kids) == [file |-> file, kids |-> kids]
LeafSeqs(n) == [1..n -> {Nd(f, <<>>) : f \in ScopeFiles}]
RECURSIVE Forests(_)
Forests(n) ==
  IF n = 0 THEN {<<>>}
  ELSE {<<>>} \cup
       UNION {{<<Nd(f, kids)>> \o rest :
                 f \in ScopeFiles, kids \in LeafSeqs(s - 1), rest \in Forests(n - s)} :
                s \in 1..n}
\* GlobalEnv: the bindings of each scope, 0 for none; the bindings object the
\* provider makes at its n-th call is n
EmptyEnv == [f \in ScopeFiles |-> 0]
loadGlobalsUncached(globalEnv, log, scope) ==
  [env |-> [globalEnv EXCEPT ![scope] = Len(log) + 1],
   calls |-> Append(log, scope),
   binds |-> Len(log) + 1]
loadGlobals(globalEnv, log, scope) ==
  IF globalEnv[scope] = 0
    THEN [env |-> [globalEnv EXCEPT ![scope] = Len(log) + 1],
          calls |-> Append(log, scope),
          binds |-> Len(log) + 1]
  ELSE [env |-> globalEnv, calls |-> log, binds |-> globalEnv[scope]]
\* the frame of one compileContainerChildren: its nodes, the index of the
\* next one, the scope of its context, the depth of the container, the path
\* of the container and which of the blocks is its current one
WalkF(nodes, scope, depth, path, block) ==
  [nodes |-> nodes, i |-> 1, scope |-> scope, depth |-> depth, path |-> path,
   block |-> block]
\* newBlockContext: a block of a container by its prologue (the bindings it
\* binds, 0 for the empty prologue) and its body (the children by index)
BlockContext(of, scope, prologue, body) ==
  [of |-> of, scope |-> scope, prologue |-> prologue, body |-> body]
\* compileContainerChildren: the file of the node is not the global scope
globalScopeDiffersFromInitial(scope, node) == InitialScope # node.file
globalScopeDiffers(scope, node) == scope # node.file
\* compileContainer: main, one function for each block with a body
RECURSIVE mainOf(_, _, _)
mainOf(blocks, path, j) ==
  IF j > Len(blocks) THEN <<>>
  ELSE (IF blocks[j].of = path /\ blocks[j].body # <<>> THEN <<blocks[j]>> ELSE <<>>)
         \o mainOf(blocks, path, j + 1)

InitScopes ==
  /\ inp \in Forests(MaxScopeNodes)
  /\ res = [env |-> EmptyEnv, blocks |-> <<>>,
            all |-> <<BlockContext(<<>>, InitialScope, 0, <<>>)>>, main |-> <<>>]
  /\ status = "parsed"
  /\ doc = <<>>
  /\ stk = <<WalkF(inp, InitialScope, 0, <<>>, 1)>>
  /\ ctl = C("idle", 0)
  /\ effects = <<>>
  /\ calls = <<>>
  /\ proc = {}
  /\ rets = {}
  /\ out = [st |-> "orig", nodes |-> <<>>]
  /\ failure = NoErr

\* compileContainerChildren: one child; a new block with the globals of its
\* file if the scope changes, then the child's own children
CompileChild ==
  /\ status = "parsed"
  /\ Top.i <= Len(Top.nodes)
  /\ LET node == Top.nodes[Top.i]
         change == globalScopeDiffers(Top.scope, node)
         g == loadGlobals(res.env, calls, node.file)
         all1 == IF change
                   THEN Append(res.all, BlockContext(Top.path, node.file, g.binds, <<Top.i>>))
                 ELSE [res.all EXCEPT ![Top.block].body = Append(@, Top.i)]
         here == [Top EXCEPT !.i = @ + 1, !.scope = node.file,
                             !.block = IF change THEN Len(all1) ELSE @]
         path == Append(Top.path, Top.i)
     IN /\ calls' = IF change THEN g.calls ELSE calls
        /\ res' = [res EXCEPT
             !.env = IF change THEN g.env ELSE @,
             !.blocks = IF change
                          THEN Append(@, [scope |-> node.file, binds |-> g.binds,
                                          depth |-> Top.depth])
                        ELSE @,
             !.all = IF node.kids # <<>>
                       THEN Append(all1, BlockContext(path, node.file, 0, <<>>))
                     ELSE all1]
        /\ stk' = IF node.kids # <<>>
                    THEN Append(SetTop(stk, here),
                                WalkF(node.kids, node.file, Top.depth + 1, path,
                                      Len(all1) + 1))
                  ELSE SetTop(stk, here)
  /\ UNCHANGED <<doc, status, ctl, effects, proc, rets, out, failure, inp>>

\* compileContainerChildren: return blocks; the context of the caller is as
\* it was, and compileContainer makes a function of each block with a body
CompileReturn ==
  /\ status = "parsed"
  /\ Top.i > Len(Top.nodes)
  /\ stk' = Pop(stk)
  /\ status' = IF Len(stk) = 1 THEN "compiled" ELSE status
  /\ res' = [res EXCEPT !.main = @ \o mainOf(res.all, Top.path, 1)]
  /\ UNCHANGED <<doc, ctl, effects, calls, proc, rets, out, failure, inp>>

NextScopes == CompileChild \/ CompileReturn

SpecScopes == InitScopes /\ [][NextScopes]_vars


\* ----------------------------------------------------- require of globals
\* (globalRequire, defaultGlobals, scopeURL: the bindings of the scopes of
\* one compilation, guest code that stores exports and calls require)
\* a path is the sequence of its segments; NoFile is the scope of a source
\* without file
NoFile == <<"?">>
File1 == <<"d", "1.css">>
File2 == <<"d", "2.css">>
ModuleFiles == {File1, File2}
\* the argument of require: a relative or absolute reference by its
\* segments, or a URL that is no file URL
Ref(abs, segs) == [url |-> "file", abs |-> abs, segs |-> segs]
OtherURL == [url |-> "http", abs |-> TRUE, segs |-> <<"x">>]
RequireNames ==
  {Ref(FALSE, <<".", "1.css">>), Ref(FALSE, <<"1.css">>), Ref(FALSE, <<"..", "d", "1.css">>),
   Ref(TRUE, <<"d", "1.css">>), Ref(FALSE, <<".", "2.css">>), Ref(FALSE, <<".", "3.css">>),
   Ref(FALSE, <<"foo">>), Ref(FALSE, <<"..", "..", "1.css">>), OtherURL}
\* scopeURL: the URL of the scope, file:/// for a source without file
scopeURL(scope) == IF scope = NoFile THEN <<>> ELSE scope
\* new URL(name, url).pathname: the reference resolved against the base;
\* "." and ".." are removed, ".." never leaves the root
RECURSIVE removeDots(_, _)
removeDots(segs, acc) ==
  IF segs = <<>> THEN acc
  ELSE IF Head(segs) = "." THEN removeDots(Tail(segs), acc)
  ELSE IF Head(segs) = ".."
    THEN removeDots(Tail(segs), IF acc = <<>> THEN acc ELSE SubSeq(acc, 1, Len(acc) - 1))
  ELSE removeDots(Tail(segs), Append(acc, Head(segs)))
newURL(name, url) ==
  IF name.url # "file" THEN [url |-> name.url, path |-> name.segs]
  ELSE IF name.abs THEN [url |-> "file", path |-> removeDots(name.segs, <<>>)]
  ELSE [url |-> "file",
        path |-> removeDots(name.segs,
                            IF url = <<>> THEN <<>> ELSE SubSeq(url, 1, Len(url) - 1))]
\* fileURLToPath: throws for a URL that is no file URL
fileURLToPath(u) == IF u.url = "file" THEN [throws |-> FALSE, path |-> u.path]
                    ELSE [throws |-> TRUE, path |-> <<>>]
\* the values of guest code here: a string, or the object with an identity
StrVal(s) == [t |-> "string", s |-> s, id |-> 0]
ObjVal(id) == [t |-> "object", s |-> "", id |-> id]
\* the bindings defaultGlobals makes for a scope: exports and module.exports
\* are the same fresh object
NoBinds == [t |-> "none", exports |-> ObjVal(0), module |-> ObjVal(0)]
Binds(exports, module) == [t |-> "binds", exports |-> exports, module |-> module]
ExportsId(scope) == CASE scope = File1 -> 1 [] scope = File2 -> 2 [] OTHER -> 3
defaultGlobals(scope) == Binds(ObjVal(ExportsId(scope)), ObjVal(ExportsId(scope)))
\* createRequire(url): the host's require knows the packages foo and 1.css
\* and throws for every other name
requireOrig(name) ==
  IF name \in {Ref(FALSE, <<"foo">>), Ref(FALSE, <<"1.css">>)}
    THEN [via |-> "host", throws |-> FALSE, v |-> StrVal("pkg")]
  ELSE [via |-> "host", throws |-> TRUE, v |-> StrVal("")]
requireExtHostFirst(scope, env, name) ==
  LET p == fileURLToPath(newURL(name, scopeURL(scope)))
      own == requireOrig(name)
  IN IF ~own.throws THEN own
     ELSE IF ~p.throws /\ p.path \in DOMAIN env /\ env[p.path] # NoBinds
       THEN [via |-> "env", throws |-> FALSE, v |-> env[p.path].module]
     ELSE own
\* globalRequire: requireExt
requireExt(scope, env, name) ==
  LET p == fileURLToPath(newURL(name, scopeURL(scope)))
  IN IF ~p.throws /\ p.path \in DOMAIN env /\ env[p.path] # NoBinds
       THEN [via |-> "env", throws |-> FALSE, v |-> env[p.path].module]
     ELSE requireOrig(name)
\* what guest code stores in an exports object
Stored == {"", "80%", "9"}

\* stk is the GlobalEnv, out the content of the exports objects by identity,
\* inp the last call of require and res what it returned
InitRequire ==
  /\ \E scopes \in SUBSET (ModuleFiles \cup {NoFile}) :
       stk = [f \in ModuleFiles \cup {NoFile} |->
                IF f \in scopes THEN defaultGlobals(f) ELSE NoBinds]
  /\ out = [id \in 1..3 |-> ""]
  /\ inp = None
  /\ res = None
  /\ status = "running"
  /\ doc = <<>>
  /\ ctl = C("idle", 0)
  /\ effects = <<>>
  /\ calls = <<>>
  /\ proc = {}
  /\ rets = {}
  /\ failure = NoErr

\* guest code of a scope: exports.x = s
GuestExport ==
  /\ \E f \in DOMAIN stk, s \in Stored :
       /\ stk[f] # NoBinds
       /\ out' = [out EXCEPT ![stk[f].exports.id] = s]
  /\ status' = "running"
  /\ UNCHANGED <<doc, stk, ctl, effects, calls, proc, rets, failure, inp, res>>

\* guest code of a scope: module.exports = s
GuestAssign ==
  /\ \E f \in DOMAIN stk, s \in Stored \ {""} :
       /\ stk[f] # NoBinds
       /\ stk' = [stk EXCEPT ![f].module = StrVal(s)]
  /\ status' = "running"
  /\ UNCHANGED <<doc, ctl, effects, calls, proc, rets, out, failure, inp, res>>

\* guest code of a scope: require(name)
GuestRequire ==
  /\ \E f \in DOMAIN stk, name \in RequireNames :
       /\ stk[f] # NoBinds
       /\ inp' = [scope |-> f, name |-> name]
       /\ res' = requireExt(f, stk, name)
  /\ status' = "required"
  /\ UNCHANGED <<doc, stk, ctl, effects, calls, proc, rets, out, failure>>

NextRequire == GuestExport \/ GuestAssign \/ GuestRequire

SpecRequire == InitRequire /\ [][NextRequire]_vars


\* ------------------------------------------------ the position of a failure
\* (evaluate, getStackTrace: run() has thrown; the frames of the error's
\* stack are inspected one by one, then the position is chosen and reported)
\* frames of a sampled stack
MaxFrames == 3
\* what find(frame) gives for a frame: nothing for a frame that is not of
\* this compilation's evaluation ("undef"), the document source its position
\* maps to ("doc", with the offset of its start; "nostart" for a source
\* without start), or its position in the generated code ("gen")
Found(k, at) == [k |-> k, at |-> at]
NotFound == Found("undef", 0)
FrameKinds ==
  {NotFound, Found("doc", 1), Found("doc", 2), Found("gen", 1), Found("nostart", 0)}
\* the tag handleError left on the error: none, or a position of the
\* generated code that maps to a document source ("doc") or does not ("gen")
ErrorTags == {NotFound, Found("doc", 3), Found("gen", 3)}
IsSource(x) == x.k \in {"doc", "nostart"}
\* getStackTrace, the hook's body for one frame
hookFrame(ret, src) ==
  LET r1 == IF ret = NotFound /\ ~IsSource(src) THEN src ELSE ret
  IN IF ~IsSource(r1) /\ src.k = "doc" THEN src ELSE r1
\* evaluate: the tag is used only if the stack gave no source
evaluateSourceTagFirst(trace, tag) ==
  IF tag.k = "doc" THEN tag ELSE trace
evaluateSource(trace, tag) ==
  IF ~IsSource(trace) /\ tag # NotFound
    THEN IF tag.k = "doc" THEN tag ELSE trace
  ELSE trace
\* evaluate: the error it throws
Report(source) ==
  CASE IsSource(source) -> [t |-> "CssSyntaxError", note |-> "", at |-> source.at]
    [] source.k = "gen" ->
         [t |-> "CssSyntaxError",
          note |-> "error occurred in the middle of generated code probably due to bug",
          at |-> 0 - 1]
    [] OTHER ->
         [t |-> "CssSyntaxError", note |-> "failed to determine where the error happened",
          at |-> 0 - 1]

InitTrace ==
  /\ inp \in {[frames |-> fs, tag |-> tag] :
                fs \in Seqs(FrameKinds, MaxFrames), tag \in ErrorTags}
  /\ res = [i |-> 1, ret |-> NotFound, report |-> None]
  /\ status = "thrown"
  /\ doc = <<>>
  /\ stk = <<>>
  /\ ctl = C("idle", 0)
  /\ effects = <<>>
  /\ calls = <<>>
  /\ proc = {}
  /\ rets = {}
  /\ out = [st |-> "orig", nodes |-> <<>>]
  /\ failure = NoErr

\* getStackTrace: frames.forEach, one frame
HookFrame ==
  /\ status = "thrown"
  /\ res.i <= Len(inp.frames)
  /\ res' = [res EXCEPT !.i = @ + 1, !.ret = hookFrame(res.ret, inp.frames[res.i])]
  /\ UNCHANGED <<doc, status, stk, ctl, effects, calls, proc, rets, out, failure, inp>>

\* evaluate: the catch clause after getStackTrace
EvaluateReport ==
  /\ status = "thrown"
  /\ res.i > Len(inp.frames)
  /\ res' = [res EXCEPT !.report = Report(evaluateSource(res.ret, inp.tag))]
  /\ status' = "reported"
  /\ UNCHANGED <<doc, stk, ctl, effects, calls, proc, rets, out, failure, inp>>

NextTrace == HookFrame \/ EvaluateReport

SpecTrace == InitTrace /\ [][NextTrace]_vars

\* ------------------------------------------- the source map of generated code
\* (script.ts: Code, computeLoc, translate, SourceMap.force)
\* items of one Code's content
MaxItems == 3
\* a Loc: the offsets of the {source, offset} links it goes through (a
\* number, null, or none given) and what the chain ends in: a Source of the
\* document ("src"), 'relative', or undefined ("none")
Loc(offs, term) == [offs |-> offs, term |-> term]
NoLoc == Loc(<<>>, "none")
\* a Code, and what its content holds: text, a hole of a sparse array, a Code
Code(loc, content) == [t |-> "code", source |-> loc, content |-> content]
Chunk(len) == [t |-> "text", len |-> len]
Hole == [t |-> "hole"]
RECURSIVE SumOffsets(_)
SumOffsets(offs) ==
  IF offs = <<>> THEN 0
  ELSE (IF Head(offs).t = "number" THEN Head(offs).n ELSE 0) + SumOffsets(Tail(offs))
HasNullOffset(offs) == \E i \in 1..Len(offs) : offs[i].t = "null"
ComputedLoc(source, offset, inc) == [source |-> source, offset |-> offset, inc |-> inc]
\* computeLoc with a null offset adding nothing and leaving inc alone
RECURSIVE computeLocIgnoresNull(_, _)
computeLocIgnoresNull(loc, from) ==
  IF loc.term = "relative"
    THEN LET base == computeLocIgnoresNull(from, NoLoc)
         IN ComputedLoc(base.source, base.offset + SumOffsets(loc.offs), 0)
  ELSE ComputedLoc(loc.term, SumOffsets(loc.offs), 1)
RECURSIVE computeLoc(_, _)
computeLoc(loc, from) ==
  LET offset == SumOffsets(loc.offs)
      inc == IF HasNullOffset(loc.offs) THEN 0 ELSE 1
  IN IF loc.term = "relative"
       THEN LET base == computeLoc(from, NoLoc)
            IN ComputedLoc(base.source, base.offset + offset, 0)
     ELSE ComputedLoc(loc.term, offset, inc)
\* SourceMap.force, begin: the context of a Code entered at the cursor (the
\* Code itself is the first link of the chain, without an offset; the
\* context it is entered from is the chain {source: loc, offset: cursor - start})
forceBegin(code, ctx, cursor) ==
  [loc |-> computeLoc(Loc(<<Undefined>> \o code.source.offs, code.source.term),
                      Loc(<<NumV(cursor - ctx.start), NumV(ctx.loc.offset)>>,
                          ctx.loc.source)),
   start |-> cursor]
\* SourceMap.force, translate: the entries of sourceMap and offsetMap that
\* one text of the content fills (nothing is stored without a source)
Unmapped == [source |-> "none", offset |-> 0]
forceTranslate(len, ctx, cursor) ==
  [i \in 1..len |->
     IF ctx.loc.source # "none"
       THEN [source |-> ctx.loc.source,
             offset |-> ctx.loc.offset + (cursor - ctx.start) * ctx.loc.inc
                          + (i - 1) * ctx.loc.inc]
     ELSE Unmapped]
Task(ctx, src, index) == [ctx |-> ctx, src |-> src, index |-> index]

\* the Codes sampled: texts of one or two characters, holes, and Codes of
\* every kind of Loc, nested to the depth of three
Locs ==
  {Loc(<<>>, "src"), Loc(<<NumV(1)>>, "src"), Loc(<<NumV(1), NumV(2)>>, "src"),
   Loc(<<Null>>, "src"), Loc(<<NumV(2), Null>>, "src"),
   Loc(<<>>, "relative"), Loc(<<>>, "none")}
InnerCodes ==
  {Code(loc, <<Chunk(2)>>) :
     loc \in {Loc(<<NumV(1)>>, "src"), Loc(<<NumV(2), Null>>, "src"),
              Loc(<<>>, "relative"), Loc(<<>>, "none")}}
    \cup {Code(Loc(<<>>, "relative"),
               <<Chunk(1), Code(Loc(<<NumV(1)>>, "src"), <<Chunk(1)>>), Chunk(1)>>),
          Code(Loc(<<Null>>, "src"),
               <<Code(Loc(<<>>, "relative"), <<Chunk(1)>>),
                 Code(Loc(<<>>, "src"), <<Chunk(2)>>),
                 Code(Loc(<<>>, "relative"), <<Chunk(1)>>)>>)}
Items == {Chunk(1), Hole} \cup InnerCodes
Codes == {Code(loc, content) : loc \in Locs, content \in Seqs(Items, MaxItems)}

InitMap ==
  /\ inp \in Codes
  /\ res = [cursor |-> 0, position |-> 0, map |-> <<>>, stack |-> <<>>,
            task |-> None]
  /\ status = "deferred"
  /\ doc = <<>>
  /\ stk = <<>>
  /\ ctl = C("idle", 0)
  /\ effects = <<>>
  /\ calls = <<>>
  /\ proc = {}
  /\ rets = {}
  /\ out = [st |-> "orig", nodes |-> <<>>]
  /\ failure = NoErr

\* force, translate: the first task, begun from the initial context
ForceStart ==
  /\ status = "deferred"
  /\ status' = "forcing"
  /\ res' = [res EXCEPT
       !.task = Task(forceBegin(inp, [loc |-> computeLoc(NoLoc, NoLoc), start |-> 0],
                                res.cursor), inp, 1)]
  /\ UNCHANGED <<doc, stk, ctl, effects, calls, proc, rets, out, failure, inp>>

\* translate: the element at index is a Code, entered after the task is pushed
ForceEnter ==
  /\ status = "forcing"
  /\ res.task.index <= Len(res.task.src.content)
  /\ LET elem == res.task.src.content[res.task.index]
     IN /\ elem.t = "code"
        /\ res' = [res EXCEPT
             !.stack = Append(@, res.task),
             !.task = Task(forceBegin(elem, res.task.ctx, res.cursor), elem, 1)]
  /\ UNCHANGED <<doc, status, stk, ctl, effects, calls, proc, rets, out, failure, inp>>

\* translate: the element at index is a text, mapped by force's translate
ForceChunk ==
  /\ status = "forcing"
  /\ res.task.index <= Len(res.task.src.content)
  /\ LET elem == res.task.src.content[res.task.index]
         ctx == res.task.ctx
     IN /\ elem.t = "text"
        /\ res' = [res EXCEPT
             !.map = @ \o forceTranslate(elem.len, ctx, res.cursor),
             !.cursor = IF ctx.loc.source # "none" THEN @ + elem.len * ctx.loc.inc
                        ELSE @,
             !.position = @ + elem.len,
             !.task.index = @ + 1]
  /\ UNCHANGED <<doc, status, stk, ctl, effects, calls, proc, rets, out, failure, inp>>

\* translate: nothing is in the content at index
ForceHole ==
  /\ status = "forcing"
  /\ res.task.index <= Len(res.task.src.content)
  /\ res.task.src.content[res.task.index].t = "hole"
  /\ res' = [res EXCEPT !.task.index = @ + 1]
  /\ UNCHANGED <<doc, status, stk, ctl, effects, calls, proc, rets, out, failure, inp>>

\* translate: the content is exhausted; the task below resumes, or force ends
ForceEnd ==
  /\ status = "forcing"
  /\ res.task.index > Len(res.task.src.content)
  /\ IF res.stack = <<>>
       THEN /\ status' = "forced"
            /\ res' = [res EXCEPT !.task = None]
     ELSE /\ res' = [res EXCEPT
               !.stack = SubSeq(@, 1, Len(@) - 1),
               !.task = [res.stack[Len(res.stack)] EXCEPT !.index = @ + 1]]
          /\ UNCHANGED status
  /\ UNCHANGED <<doc, stk, ctl, effects, calls, proc, rets, out, failure, inp>>

NextMap == ForceStart \/ ForceEnter \/ ForceChunk \/ ForceHole \/ ForceEnd

SpecMap == InitMap /\ [][NextMap]_vars

\* ------------------------------------ interpretUnknown on nested iterables
\* what an injected iterable enumerates: mappings of one declaration each,
\* a document node, values that cannot be interpreted, and iterables of
\* them, arrays and iterators without done alike, nested to the depth of three
Enumerated ==
  {Marked("a"), Marked("b"), DeclNode(T("n"), T("v"), <<>>),
   Undefined, Null, F1, StrV(T("x"))}
InnerIterables ==
  {ArrayV(<<>>), ArrayV(<<Marked("c")>>), TestIterableV(<<Marked("d")>>),
   ArrayV(<<Marked("c"), TestIterableV(<<Marked("d")>>)>>),
   TestIterableV(<<ArrayV(<<Marked("c")>>), Marked("d")>>),
   TestIterableV(<<TestIterableV(<<Null>>)>>)}
Iterables ==
  UNION {{ArrayV(items), TestIterableV(items)} :
           items \in Seqs(Enumerated \cup InnerIterables, MaxKids)}

InitFlat ==
  /\ inp \in Iterables
  /\ res = None
  /\ status = "sampled"
  /\ doc = <<>>
  /\ stk = <<>>
  /\ ctl = C("idle", 0)
  /\ effects = <<>>
  /\ calls = <<>>
  /\ proc = {}
  /\ rets = {}
  /\ out = [st |-> "orig", nodes |-> <<>>]
  /\ failure = NoErr

\* interpretUnknown(value, context) run to its end, in a context without a
\* source
InterpretUnknownStep ==
  /\ status = "sampled"
  /\ res' = interpretUnknown(inp, <<>>, PosNone)
  /\ status' = "applied"
  /\ UNCHANGED <<doc, stk, ctl, effects, calls, proc, rets, out, failure, inp>>

NextFlat == InterpretUnknownStep

SpecFlat == InitFlat /\ [][NextFlat]_vars

\* -------------------------------------- the raws at the end of a container
\* (Context.mergeRaws, Context.reflect, mainLoop's handling of an iterator
\* that is done, appendNodes: what becomes of raws.semicolon)
\* events of one mainLoop
MaxEvents == 3
Semis == {"undef", "true", "false"}
\* what an iterator returns when it is done: an object with a semicolon that
\* is a boolean, is missing, or is no boolean; or no object
IteratorReturns == {[semicolon |-> s] : s \in Semis \cup {"string"}} \cup {[semicolon |-> "none"]}
\* coerceToRaws
coerceToRaws(obj) ==
  IF obj.semicolon \in {"true", "false"} THEN obj.semicolon ELSE "undef"
\* what mainLoop meets: a node it yields, or an iterator that is done
NodeEvent == [e |-> "node", ret |-> [semicolon |-> "none"]]
DoneEvent(ret) == [e |-> "done", ret |-> ret]
RawsEvents == {NodeEvent} \cup {DoneEvent(r) : r \in IteratorReturns}

InitRaws ==
  /\ inp \in {[events |-> es, own |-> own] :
                es \in Seqs(RawsEvents, MaxEvents), own \in Semis}
  /\ res = [i |-> 1, raws |-> "undef", last |-> "undef", semicolon |-> "unset"]
  /\ status = "collecting"
  /\ doc = <<>>
  /\ stk = <<>>
  /\ ctl = C("idle", 0)
  /\ effects = <<>>
  /\ calls = <<>>
  /\ proc = {}
  /\ rets = {}
  /\ out = [st |-> "orig", nodes |-> <<>>]
  /\ failure = NoErr

\* mainLoop: an iterator on the stack is done;
\* context.mergeRaws(coerceToRaws(next.value))
ContextMergeRaws ==
  /\ status = "collecting"
  /\ res.i <= Len(inp.events)
  /\ inp.events[res.i].e = "done"
  /\ res' = [res EXCEPT
       !.i = @ + 1,
       !.last = coerceToRaws(inp.events[res.i].ret),
       !.raws = mergeRaws(res.raws, coerceToRaws(inp.events[res.i].ret))]
  /\ UNCHANGED <<doc, status, stk, ctl, effects, calls, proc, rets, out, failure, inp>>

\* mainLoop: a node is yielded; context.reflect forgets the raws
ContextReflect ==
  /\ status = "collecting"
  /\ res.i <= Len(inp.events)
  /\ inp.events[res.i].e = "node"
  /\ res' = [res EXCEPT !.i = @ + 1, !.raws = "undef", !.last = "undef"]
  /\ UNCHANGED <<doc, status, stk, ctl, effects, calls, proc, rets, out, failure, inp>>

\* mainLoop returns context.rawsEnd and appendNodes merges the container's
\* own raws over it
AppendNodesRaws ==
  /\ status = "collecting"
  /\ res.i > Len(inp.events)
  /\ LET raws == mergeRaws(res.raws, inp.own)
     IN res' = [res EXCEPT !.semicolon = IF raws # "undef" THEN raws ELSE inp.own]
  /\ status' = "appended"
  /\ UNCHANGED <<doc, stk, ctl, effects, calls, proc, rets, out, failure, inp>>

NextRaws == ContextMergeRaws \/ ContextReflect \/ AppendNodesRaws

SpecRaws == InitRaws /\ [][NextRaws]_vars

\* ------------------------------------------------------------- properties
IsPrefix(a, b) == Len(a) <= Len(b) /\ SubSeq(b, 1, Len(a)) = a
\* document order, depth-first, of two positions: a fragment before what is
\* nested in it, an earlier sibling's subtree before a later sibling's
DocBefore(a, b) ==
  \/ IsPrefix(a, b) /\ a # b
  \/ \E n \in 1..Len(a) :
       /\ n <= Len(b)
       /\ SubSeq(a, 1, n - 1) = SubSeq(b, 1, n - 1)
       /\ a[n] < b[n]

\* C1: the side effects of the guest code are observed in document order,
\* depth-first: a rule's selector fragments before the fragments of its
\* body, a container's fragments before those of a following sibling, and
\* the fragments of a consumed sub-program between the effects that precede
\* and follow its consumption.
InDocumentOrder ==
  \A i, j \in 1..Len(effects) : i < j => DocBefore(effects[i], effects[j])

\* a consumed block's effect between two effects of the consuming fragment
ConsumedBetween ==
  /\ status = "ok"
  /\ \E i \in 2..(Len(effects) - 1) :
       /\ Len(effects[i - 1]) = 2 /\ Len(effects[i]) = 4 /\ Len(effects[i + 1]) = 2
       /\ effects[i - 1][1] = effects[i][1] /\ effects[i + 1][1] = effects[i][1]
       /\ effects[i - 1][2] < effects[i][2] /\ effects[i][2] < effects[i + 1][2]

KidsAt(path) == IF path = <<>> THEN doc ELSE NodeAt(doc, path).kids

\* C2: after a return in a block-level fragment the later siblings of its
\* block are not processed and have no effect, and nothing else is
\* discarded: the nodes before it are kept, the later blocks of the
\* container are processed and their plain nodes reach the output.
CancellationLaw ==
  status = "ok" =>
    \A r \in rets :
      LET kids == KidsAt(r.path)
          end == NextBlock(kids, r.inh, r.i)
          dropped(j) == \E q \in rets : /\ q.base = r.base
                                        /\ q.i < j
                                        /\ j < NextBlock(kids, q.inh, q.i)
          kept(j) == (r.path = <<>> /\ kids[j].kind = "decl") =>
                       \E n \in 1..Len(out.nodes) : out.nodes[n].src = <<j>>
      IN /\ \A j \in (r.i + 1)..(end - 1) :
              /\ Append(r.base, j) \notin proc
              /\ \A e \in 1..Len(effects) : ~IsPrefix(Append(r.base, j), effects[e])
         /\ \A j \in 1..(r.i - 1) : ~dropped(j) => kept(j)
         /\ \A j \in end..Len(kids) :
              ~dropped(j) => Append(r.base, j) \in proc /\ kept(j)

\* C3: a function emitted while none is held is held and produces no node;
\* the next emitted value is passed to it as its only argument and is not
\* classified; what the function returns is classified as an emitted value
\* is: a returned function is held, a returned mapping is injected.
ContinuationTakesNext ==
  [][/\ (ctl.m = "item" /\ stk[ctl.k].func = None /\ ctl.v.t = "function") =>
          /\ stk'[ctl.k].func = ctl.v
          /\ stk'[ctl.k].acc = stk[ctl.k].acc
          /\ stk'[ctl.k].outbox = <<>>
          /\ calls' = calls
          /\ ctl'.m \notin {"throw", "item"}
     /\ (ctl.m = "item" /\ stk[ctl.k].func # None /\ ctl.v.t # "EndJs") =>
          LET f == stk[ctl.k].func
          IN /\ calls' = Append(calls, [fn |-> f.id, arg |-> ctl.v])
             /\ ctl'.m # "throw"
             /\ f.ret.t = "function" =>
                  stk'[ctl.k].func = f.ret /\ stk'[ctl.k].acc = stk[ctl.k].acc
             /\ f.ret = DeclObj =>
                  /\ stk'[ctl.k].func = None
                  /\ stk'[ctl.k].acc =
                       Append(stk[ctl.k].acc, DeclNode(T("c"), T("r"), stk[ctl.k].src))
    ]_vars

\* a function took an emitted mapping, the function it returned took the
\* next value
TookNext ==
  /\ status = "ok"
  /\ Len(calls) = 2
  /\ calls[1] = [fn |-> 2, arg |-> DeclObj]
  /\ calls[2] = [fn |-> 1, arg |-> Null]
  /\ Len(out.nodes) = 1

\* C4: a function yielded last in a region is invoked with no argument
\* when the region ends; a function that comes back is held and invoked
\* again before anything else is fetched; the first other result is
\* classified as an emitted value is; and when the program goes on with what
\* follows the region, no function waits any more.
ContinuationLaw ==
  [][/\ (/\ ctl.m \in {"item", "loop"}
         /\ (IF ctl.m = "loop" THEN stk[ctl.k].next.v ELSE ctl.v) = EndJs(TRUE)
         /\ stk[ctl.k].func # None) =>
          LET f == stk[ctl.k].func
          IN /\ calls' = Append(calls, [fn |-> f.id, arg |-> None])
             /\ f.ret.t = "function" =>
                  /\ stk'[ctl.k].func = f.ret
                  /\ stk'[ctl.k].acc = stk[ctl.k].acc
                  /\ ctl' = C("loop", ctl.k)
             /\ f.ret = DeclObj =>
                  /\ stk'[ctl.k].func = None
                  /\ stk'[ctl.k].acc =
                       Append(stk[ctl.k].acc, DeclNode(T("c"), T("r"), stk[ctl.k].src))
     /\ (/\ ctl'.m = "run"
         /\ stk' # <<>>
         /\ stk'[Len(stk')].f = "gen"
         /\ stk'[Len(stk')].pc = "child") =>
          stk'[stk'[Len(stk')].own].func = None
    ]_vars

\* C5: an EndJs(false) that finds a function held drops it without calling
\* it; a function is only ever called from the slot that holds it, which
\* the call empties or refills with what the function returned, so that a
\* function which received its argument was called exactly once.
AbortDropsContinuation ==
  [][/\ (ctl.m = "item" /\ ctl.v = EndJs(FALSE) /\ stk[ctl.k].func # None) =>
          calls' = calls /\ stk'[ctl.k].func = None
     /\ calls' # calls =>
          /\ ctl.m \in {"item", "loop"}
          /\ stk[ctl.k].func # None
          /\ \E a \in {None, ctl.v} :
               calls' = Append(calls, [fn |-> stk[ctl.k].func.id, arg |-> a])
          /\ stk'[ctl.k].func \in {None, stk[ctl.k].func.ret}
    ]_vars

\* guest code threw while the function returned by a called function waited
DroppedAfterThrow ==
  /\ status = "error"
  /\ failure.kind = "guest"
  /\ doc[1].kind = "js"
  /\ doc[1].ops = <<Op("yield", F2), Op("yield", DeclObj), Op("throw", ErrObj)>>
  /\ calls = <<[fn |-> 2, arg |-> DeclObj]>>

\* the value that a document of one block-level fragment injects, None for
\* any other document
Injected ==
  IF Len(doc) = 1 /\ doc[1].kind = "js" /\ ~doc[1].hasBlock THEN
    IF doc[1].expr /\ doc[1].ops = <<>> THEN doc[1].val
    ELSE IF ~doc[1].expr /\ Len(doc[1].ops) = 1 /\ doc[1].ops[1].op = "yield"
      THEN doc[1].ops[1].v
    ELSE None
  ELSE None

\* the property names of a list of declarations
Props(nodes) == [i \in 1..Len(nodes) |-> nodes[i].prop]

\* C6: an injected value is classified by testing, in this order,
\* async-iterable, sync-iterable, plain object, document node, and the
\* first category that matches decides: an object with an async iterator is
\* iterated through it, else one with a sync iterator is iterated through
\* that (a plain object too), else a plain object is read as a mapping, else
\* a node is injected; any other value but a function or undefined is
\* rejected.
ClassificationOrder ==
  (status \in {"ok", "error"} /\ Injected # None) =>
    LET v == Injected
    IN CASE v \in Objects /\ v.ai = "func" ->
              status = "ok" /\ Props(out.nodes) = <<T("a")>>
         [] v \in Objects /\ v.ai # "func" /\ v.si = "func" ->
              status = "ok" /\ Props(out.nodes) = <<T("s")>>
         [] v.t = "object" /\ v.ai # "func" /\ v.si # "func"
              /\ v.proto \in {"Object", "null"} ->
              /\ status = "ok"
              /\ Props(out.nodes) = [i \in 1..Len(v.entries) |-> v.entries[i].k]
         [] v.t = "node" -> status = "ok" /\ out.nodes = <<[v EXCEPT !.src = <<1>>]>>
         [] v.t = "object" /\ v.ai # "func" /\ v.si # "func"
              /\ v.proto \notin {"Object", "null"} ->
              status = "error" /\ failure.kind = "Unexpected" /\ failure.of = v
         [] v.t \in {"null", "string", "number"} ->
              status = "error" /\ failure.kind = "Unexpected" /\ failure.of = v
         [] OTHER -> TRUE

\* C9: when no function is held, an undefined value is dropped (no node, no
\* error, no call, the loop goes on) and a null raises the error 'attempt to
\* inject an invalid value'; so it is for the value a called function
\* returns.
NullRaisesUndefinedDropped ==
  [][/\ (ctl.m = "item" /\ stk[ctl.k].func = None /\ ctl.v = Undefined) =>
          /\ Len(stk') = Len(stk)
          /\ stk'[ctl.k] = [stk[ctl.k] EXCEPT !.next = NextUndefined]
          /\ ctl'.m \notin {"throw", "item"}
          /\ calls' = calls
     /\ (ctl.m = "item" /\ stk[ctl.k].func = None /\ ctl.v = Null) =>
          /\ ctl'.m = "throw" /\ ctl'.e.kind = "Unexpected" /\ ctl'.e.of = Null
          /\ stk'[ctl.k].acc = stk[ctl.k].acc
          /\ calls' = calls
     /\ (calls' # calls /\ stk[ctl.k].func.ret = Undefined) =>
          /\ Len(stk') = Len(stk)
          /\ stk'[ctl.k].acc = stk[ctl.k].acc /\ stk'[ctl.k].outbox = <<>>
          /\ stk'[ctl.k].func = None
          /\ ctl'.m \notin {"throw", "item"}
     /\ (calls' # calls /\ stk[ctl.k].func.ret = Null) =>
          /\ ctl'.m = "throw" /\ ctl'.e.kind = "Unexpected" /\ ctl'.e.of = Null
          /\ stk'[ctl.k].acc = stk[ctl.k].acc
    ]_vars

\* C9 as stated: an undefined value is always dropped and leaves what
\* follows unaffected, a null value always raises the error.
NullAlwaysRaises ==
  [][/\ (ctl.m = "item" /\ ctl.v = Undefined) =>
          /\ calls' = calls
          /\ stk'[ctl.k].acc = stk[ctl.k].acc
          /\ ctl'.m # "throw"
     /\ (ctl.m = "item" /\ ctl.v = Null) =>
          ctl'.m = "throw" /\ ctl'.e.kind = "Unexpected"
    ]_vars

\* a function called at the end of its region returned null, and the run
\* was rejected for it
NullReturnedRejected ==
  /\ status = "error"
  /\ failure.kind = "Unexpected" /\ failure.of = Null
  /\ calls = <<[fn |-> 3, arg |-> None]>>

\* the value of a document that is one @js property value or one rule with
\* a :@js selector, None for any other document
Stringified ==
  IF Len(doc) # 1 THEN None
  ELSE IF doc[1].kind = "declJs" /\ doc[1].ops = <<>> THEN doc[1].val
  ELSE IF doc[1].kind = "rule" /\ doc[1].kids = <<>> /\ Len(doc[1].sel) = 2
          /\ doc[1].sel[2].js /\ doc[1].sel[2].ops = <<>> THEN doc[1].sel[2].val
  ELSE None

\* C10: the value of an @js property value or of a :@js selector is
\* injected as String(value) when it is stringifiable; null, undefined, a
\* function, an iterable, a plain object, a node and an object that only
\* inherits Object.prototype.toString raise the error, and the declaration
\* or the rule is not produced.
StringifiedOrRejected ==
  (status \in {"ok", "error"} /\ Stringified # None) =>
    LET v == Stringified
        rejected ==
          \/ v.t \in {"null", "undefined", "function", "node", "block"}
          \/ /\ v.t = "object"
             /\ \/ v.ai = "func" \/ v.si = "func"
                \/ v.proto \in {"Object", "null"}
                \/ v.tostr = "inherit"
        text == IF v.t = "string" THEN v.s
                ELSE IF v = NumV(12) THEN <<"1", "2">>
                ELSE v.str
    IN IF rejected
         THEN /\ status = "error"
              /\ failure.kind = "Unexpected" /\ failure.of = v
              /\ out.st = "orig"
         ELSE /\ status = "ok"
              /\ out.nodes =
                   IF doc[1].kind = "declJs"
                     THEN <<DeclNode(doc[1].prop, text, <<1>>)>>
                     ELSE <<RuleNode(doc[1].sel[1].text \o <<",">> \o text, <<>>,
                                     doc[1].semi, <<1>>)>>

\* an object that only inherits toString was rejected as a property value
InheritedToStringRejected ==
  /\ status = "error"
  /\ Stringified # None
  /\ doc[1].kind = "declJs"
  /\ Stringified.t = "object"
  /\ Stringified.proto = "Custom"
  /\ Stringified.ai = "absent" /\ Stringified.si = "absent"
  /\ failure.of = Stringified

\* the categories of a value, as the classification law names them
Interpretable(v) ==
  \/ v.t \in {"node", "block"}
  \/ /\ v.t = "object"
     /\ (v.ai = "func" \/ v.si = "func" \/ v.proto \in {"Object", "null"})
Stringifiable(v) ==
  /\ v.t \notin {"null", "undefined", "function"}
  /\ ~Interpretable(v)
  /\ v.t = "object" => v.tostr # "inherit"
Text(v) ==
  IF v.t = "string" THEN v.s
  ELSE IF v = NumV(12) THEN <<"1", "2">>
  ELSE v.str
HasMarker(k) == Len(k) > 0 /\ k[1] = "@"

\* what the law requires of the result r of a mapping of the one entry e;
\* blockless tells whether an '@' key with the value undefined is to yield
\* an at-rule without a block
Meets(e, r, blockless) ==
  LET inner == interpretUnknown(e.v, <<>>, PosNone)
      rejected == r.nodes = <<>> /\ r.err.kind = "Unexpected" /\ r.err.of = e.v
  IN IF Interpretable(e.v) THEN
       IF inner.err # NoErr THEN r.nodes = <<>> /\ r.err = inner.err
       ELSE /\ r.err = NoErr
            /\ Len(r.nodes) = 1
            /\ r.nodes[1].nodes = inner.nodes
            /\ IF HasMarker(e.k) THEN r.nodes[1].type = "atrule" /\ r.nodes[1].block
               ELSE r.nodes[1].type = "rule" /\ r.nodes[1].selector = e.k
     ELSE IF HasMarker(e.k) THEN
       IF blockless /\ e.v = Undefined
         THEN /\ r.err = NoErr
              /\ Len(r.nodes) = 1
              /\ r.nodes[1].type = "atrule" /\ ~r.nodes[1].block
         ELSE rejected
     ELSE IF Stringifiable(e.v) THEN
       r.err = NoErr /\ r.nodes = <<DeclNode(e.k, Text(e.v), <<>>)>>
     ELSE rejected

MeetsLaw(blockless) ==
  status = "applied" =>
    LET r1 == interpretObject(PlainV(<<inp.entries[1]>>), <<>>, PosNone)
        r2 == interpretObject(PlainV(<<inp.entries[2]>>), <<>>, PosNone)
    IN IF Len(inp.entries) = 1 THEN Meets(inp.entries[1], res, blockless)
       ELSE /\ Meets(inp.entries[1], r1, blockless)
            /\ Meets(inp.entries[2], r2, blockless)
            /\ res = IF r1.err # NoErr THEN r1 ELSE Res(r1.nodes \o r2.nodes, r2.err)

\* C7: for every plain mapping and every key in insertion order: an '@' key
\* with an interpretable value yields an at-rule whose block is the
\* interpretation of the value, an '@' key with the value undefined yields
\* an at-rule without a block, another key with an interpretable value
\* yields a rule with the key as selector, another key with a stringifiable
\* value yields a declaration of String(value); an error of the value's own
\* interpretation is raised as it is; every other combination raises the
\* classification error and yields no node for that key.
ClassificationLawAmended == MeetsLaw(TRUE)

\* C7 as stated: every combination but the three named ones, an '@' key
\* with the value undefined among them, raises the classification error.
ClassificationLaw == MeetsLaw(FALSE)

\* an '@' key with the value undefined gave an at-rule without a block
BlocklessAtRule ==
  /\ status = "applied"
  /\ Len(inp.entries) = 2
  /\ inp.entries[2] = Entry(<<"@", "m">>, Undefined)
  /\ res.err = NoErr
  /\ Len(res.nodes) = 2
  /\ res.nodes[2].type = "atrule" /\ ~res.nodes[2].block

\* C8: for an '@' key the at-rule name is the text after '@' up to the
\* first whitespace run or to just before the first CSS meta character, the
\* params are the rest without that whitespace run; the value undefined
\* gives an at-rule without a block, an interpretable value an at-rule with
\* the (possibly empty) block of its interpretation, any other value the
\* error.
AtRuleFromKey ==
  (status = "applied" /\ Len(inp.entries) = 1 /\ HasMarker(inp.entries[1].k)) =>
    LET e == inp.entries[1]
        src == Tail(e.k)
        inner == interpretUnknown(e.v, <<>>, PosNone)
    IN /\ Len(res.nodes) = 1 =>
            LET name == res.nodes[1].name
                params == res.nodes[1].params
                w == Len(src) - Len(name) - Len(params)
            IN /\ res.nodes[1].type = "atrule"
               /\ \A i \in 1..Len(name) : name[i] \notin Whitespace \cup MetaChars
               /\ w >= 0
               /\ SubSeq(src, 1, Len(name)) = name
               /\ \A i \in (Len(name) + 1)..(Len(name) + w) : src[i] \in Whitespace
               /\ SubSeq(src, Len(name) + w + 1, Len(src)) = params
               /\ params # <<>> =>
                    IF w = 0 THEN params[1] \in MetaChars
                    ELSE params[1] \notin Whitespace
       /\ e.v = Undefined =>
            res.err = NoErr /\ Len(res.nodes) = 1 /\ ~res.nodes[1].block
       /\ (Interpretable(e.v) /\ inner.err = NoErr) =>
            /\ res.err = NoErr /\ Len(res.nodes) = 1
            /\ res.nodes[1].block /\ res.nodes[1].nodes = inner.nodes
       /\ (Interpretable(e.v) /\ inner.err # NoErr) =>
            res.nodes = <<>> /\ res.err = inner.err
       /\ (~Interpretable(e.v) /\ e.v # Undefined) =>
            res.nodes = <<>> /\ res.err.kind = "Unexpected" /\ res.err.of = e.v

\* "@m (" with an empty iterable: the name m, the params (, an empty block
NameAndParamsSplit ==
  /\ status = "applied"
  /\ inp = PlainV(<<Entry(<<"@", "m", " ", "(">>, ArrayV(<<>>))>>)
  /\ res.err = NoErr
  /\ Len(res.nodes) = 1
  /\ res.nodes[1].name = <<"m">> /\ res.nodes[1].params = <<"(">>
  /\ res.nodes[1].block /\ res.nodes[1].nodes = <<>>


\* the least element of a nonempty set of numbers
Least(S) == CHOOSE i \in S : \A j \in S : i <= j
\* the character at index i lies within quotes or parentheses (a selector
\* text without backslashes)
Enclosed(text, i) ==
  \/ Cardinality({j \in 1..(i - 1) : text[j] = "'"}) % 2 = 1
  \/ Cardinality({j \in 1..(i - 1) : text[j] = "("})
       > Cardinality({j \in 1..(i - 1) : text[j] = ")"})
\* the end of the selector that begins at index a: the next comma that
\* separates selectors, or the end of the text
SelectorEnd(text, a) ==
  LET commas == {i \in a..Len(text) : text[i] = "," /\ ~Enclosed(text, i)}
  IN IF commas = {} THEN Len(text) + 1 ELSE Least(commas)
IsPseudoJs(core) == startsWith(core, PseudoJs) /\ endsWith(core, <<")">>)
\* the selector text from index a on, each selector of the form :@js(expr)
\* replaced by the string form of the value of expr
RECURSIVE Replaced(_, _)
Replaced(text, a) ==
  LET e == SelectorEnd(text, a)
      seg == SubSeq(text, a, e - 1)
      core == trim(seg)
      lead == SubSeq(seg, 1, Len(seg) - Len(trimStart(seg)))
      trail == SubSeq(seg, Len(trimEnd(seg)) + 1, Len(seg))
      new == IF IsPseudoJs(core)
               THEN lead \o String(GuestValue(Slice(core, 5, Len(core) - 1))) \o trail
             ELSE seg
  IN IF e > Len(text) THEN new ELSE new \o <<",">> \o Replaced(text, e + 1)

\* C11: the selector of a rule whose program ran is the original selector
\* text with every selector of the form :@js(expr) replaced by the string
\* form of its expression's value, all other characters kept in place.
SelectorRewritten ==
  (status = "ok" /\ inp.kind = "selector") => out.nodes = Replaced(inp.text, 1)

\* two :@js selectors with different values after a literal character
TwoSelectorsRewritten ==
  /\ status = "ok"
  /\ inp.kind = "selector"
  /\ Len(res.exprs) = 2
  /\ res.exprs[1] # res.exprs[2]
  /\ res.strings[1] # <<>>
  /\ out.nodes # inp.text

\* the number of backslashes that immediately precede index j
RECURSIVE BackslashRun(_, _)
BackslashRun(s, j) ==
  IF j > 1 /\ s[j - 1] = "\\" THEN 1 + BackslashRun(s, j - 1) ELSE 0
\* the closing quote of a string that opens at index a (0: there is none)
Closer(s, a) ==
  LET ends == {b \in (a + 1)..Len(s) : s[b] = s[a] /\ BackslashRun(s, b) % 2 = 0}
  IN IF ends = {} THEN 0 ELSE Least(ends)
\* a quoted string opens at index a
RECURSIVE Opens(_, _)
Opens(s, a) ==
  /\ s[a] \in Quotes
  /\ (a = 1 \/ s[a - 1] # "\\")
  /\ Closer(s, a) > 0
  /\ \A a2 \in 1..(a - 1) : (s[a2] \in Quotes /\ Opens(s, a2)) => Closer(s, a2) < a
InString(s, i) == \E a \in 1..i : Opens(s, a) /\ i <= Closer(s, a)
\* the selector that holds index i of a selector text is of the form :@js(...)
InPseudoJs(text, i) ==
  \E a \in 1..i :
    /\ (a = 1 \/ (text[a - 1] = "," /\ ~Enclosed(text, a - 1)))
    /\ i < SelectorEnd(text, a)
    /\ IsPseudoJs(trim(SubSeq(text, a, SelectorEnd(text, a) - 1)))
\* the offsets in the text of a node at which the marker must not stand:
\* with strings, also those within a quoted string
Appearances(n, strings) ==
  {p \in 0..(Len(n.text) - 3) :
     /\ Slice(n.text, p, p + 3) = AtJs
     /\ strings \/ ~InString(n.text, p + 1)
     /\ n.kind = "selector" => ~InPseudoJs(n.text, p + 1)
     /\ n.kind = "value" => declMarker(n.text) < 0}
\* what precedes the text within its node in the document
Before2(n) ==
  CASE n.kind = "value" -> n.hack \o DeclProp \o DeclBetween
    [] n.kind = "params" -> <<"@", "m", " ">>
    [] OTHER -> <<>>
\* a :@js selector that fails validation before the offset p is reported
FailsBefore(n, p) ==
  /\ n.kind = "selector"
  /\ res.err.message = "SyntaxError"
  /\ res.err.offset < n.start + p
InvalidUse(strings) ==
  (status # "parsed" /\ inp.kind \in {"selector", "prop", "value", "params"}
     /\ Appearances(inp, strings) # {}) =>
    /\ status = "failed"
    /\ LET p == Least(Appearances(inp, strings))
       IN \/ res.err = [t |-> "CssSyntaxError", message |-> "invalid use of @js",
                        offset |-> inp.start + Len(Before2(inp)) + p]
          \/ FailsBefore(inp, p)

\* C12: every appearance of the marker outside a quoted string, in a
\* selector that is not of the form :@js(...), in a property name, in a
\* value that does not begin with the marker or in the params of an at-rule
\* that is no @js, makes the compilation fail with 'invalid use of @js' at
\* the document position of the first such appearance, and nothing is run.
InvalidUseRejected == InvalidUse(FALSE)


\* a mapping of one entry whose value is a string or a number, and the
\* declaration it denotes when yielded by the fragment at the root's child 1
OneDecl(v) ==
  /\ v.t = "object" /\ v.proto = "Object" /\ Len(v.entries) = 1
  /\ v.ai = "absent" /\ v.si = "absent"
  /\ v.entries[1].v.t \in {"string", "number"}
DeclOf(v) == DeclNode(v.entries[1].k, String(v.entries[1].v), <<1>>)
\* the document is one block-level fragment that yields only such mappings
YieldsDecls ==
  /\ Len(doc) = 1 /\ doc[1].kind = "js" /\ ~doc[1].hasBlock
  /\ \A k \in 1..Len(doc[1].ops) : doc[1].ops[k].op = "yield" /\ OneDecl(doc[1].ops[k].v)
  /\ doc[1].expr => (doc[1].val = Undefined \/ OneDecl(doc[1].val))
\* what it injects: its explicit yields in order, then its own value if it
\* is an expression
ExpectedDecls ==
  [k \in 1..Len(doc[1].ops) |-> DeclOf(doc[1].ops[k].v)]
    \o (IF doc[1].expr /\ doc[1].val # Undefined THEN <<DeclOf(doc[1].val)>> ELSE <<>>)
ImplicitInjected == (status = "ok" /\ YieldsDecls) => out.nodes = ExpectedDecls
\* a step of the program of a fragment without a block, past its guest code
ImplicitStep ==
  (ctl.m = "run" /\ stk # <<>> /\ Top.f = "gen" /\ Top.pc \in {"ops", "end"}
     /\ GChild(Top).kind = "js" /\ ~GChild(Top).hasBlock
     /\ (Top.pc = "ops" => Top.k > Len(GChild(Top).ops))) =>
    IF Top.pc = "ops" /\ GChild(Top).expr
      THEN /\ ctl' = CItem(Top.own, Handed(GChild(Top).val, Append(GTag(Top), Top.k)))
           /\ stk'[Len(stk)].pc = "end"
    ELSE ctl' = CItem(Top.own, EndJs(TRUE))

\* C13: a block-level fragment that is an expression hands its value to the
\* consumer exactly once, after its explicit yields and before its EndJs;
\* a fragment that is a statement sequence hands EndJs right after its
\* guest code, so only its explicit yields are injected.
ImplicitYieldLaw == []ImplicitInjected /\ [][ImplicitStep]_vars

\* two explicit yields and the value of the fragment were injected
ImplicitAfterExplicit ==
  /\ status = "ok"
  /\ doc \in ImplicitDocs
  /\ Len(doc[1].ops) = 2
  /\ out.nodes = <<DeclOf(DeclObj), DeclOf(Marked("s")), DeclOf(Marked("a"))>>


\* C14: during one compilation the provider of globals is called at most
\* once for each scope, and every block of a scope binds the bindings
\* object that call returned, wherever the block stands in the document.
GlobalsOncePerScope ==
  /\ \A f \in ScopeFiles : Cardinality({k \in DOMAIN calls : calls[k] = f}) <= 1
  /\ \A j \in DOMAIN res.blocks :
       /\ res.blocks[j].binds = res.env[res.blocks[j].scope]
       /\ \E k \in DOMAIN calls :
            calls[k] = res.blocks[j].scope /\ res.blocks[j].binds = k
  /\ \A j1, j2 \in DOMAIN res.blocks :
       res.blocks[j1].scope = res.blocks[j2].scope =>
         res.blocks[j1].binds = res.blocks[j2].binds

\* a scope left and entered again, one of its blocks in a nested container
ScopeReentered ==
  /\ status = "compiled"
  /\ \E j1, j2, j3 \in DOMAIN res.blocks :
       /\ j1 < j2 /\ j2 < j3
       /\ res.blocks[j1].scope = res.blocks[j3].scope
       /\ res.blocks[j1].scope # res.blocks[j2].scope
       /\ res.blocks[j1].depth # res.blocks[j3].depth


\* the file a reference names from a scope: the directory of the scope,
\* each ".." one level up, or none if the reference is no file reference
Level(scope) == IF scope = NoFile THEN 0 ELSE Len(scope) - 1
NamedFile(scope, name) ==
  IF name.url # "file" THEN NoFile
  ELSE IF name = Ref(FALSE, <<"..", "..", "1.css">>) THEN <<"1.css">>
  ELSE IF name.segs[Len(name.segs)] = "1.css"
    THEN IF name.abs \/ name.segs[1] = ".." \/ Level(scope) = 1 THEN File1 ELSE <<"1.css">>
  ELSE IF name.segs[Len(name.segs)] = "2.css"
    THEN IF Level(scope) = 1 THEN File2 ELSE <<"2.css">>
  ELSE NoFile
Registered(f) == f \in ModuleFiles /\ stk[f] # NoBinds

\* C15: require(name) from guest code of a scope returns the current
\* module.exports of the bindings registered for the file that name refers
\* to from the scope, if there are such bindings, and the result of the
\* host's require otherwise.
RequireLaw ==
  status = "required" =>
    LET f == NamedFile(inp.scope, inp.name)
    IN IF Registered(f)
         THEN res = [via |-> "env", throws |-> FALSE, v |-> stk[f].module]
       ELSE res = requireOrig(inp.name)

\* the second file requires the first one by a relative path and sees what
\* the first stored in its exports
ExportSeen ==
  /\ status = "required"
  /\ inp = [scope |-> File2, name |-> Ref(FALSE, <<".", "1.css">>)]
  /\ res.via = "env"
  /\ res.v.t = "object"
  /\ out[res.v.id] = "80%"


\* userCode returned for the compiled node
Returned == res.err = NoCssError /\ ~res.raw
\* the outcome the two attempts prescribe for a block-level fragment
Validated ==
  LET syn == Syntax(inp.text, inp.stub)
      at == IF inp.acorn = "present" /\ syn.pos >= 0 THEN syn.pos - StmtPrefixLen ELSE 0
  IN /\ syn.expr => (Returned /\ res.isExpr)
     /\ (~syn.expr /\ syn.stmt) => (Returned /\ ~res.isExpr)
     /\ (~syn.expr /\ ~syn.stmt) =>
          res.err = [t |-> "CssSyntaxError", message |-> "SyntaxError",
                     offset |-> inp.start + 4 + at]

\* C16: the validator of a fragment returns isExpression = true if the
\* expression attempt compiles, isExpression = false if only the statement
\* attempt compiles, and otherwise throws a syntax error at the fragment's
\* offset plus the position the auxiliary parser reports within the
\* fragment, or at the fragment's offset if there is no such position.
ValidatorLaw == (status # "parsed" /\ inp.kind = "guest") => Validated


\* the selectors of a selector text by the index of their first character
SegStarts(text) ==
  {a \in 1..(Len(text) + 1) : a = 1 \/ (text[a - 1] = "," /\ ~Enclosed(text, a - 1))}
SegAt(text, a) == SubSeq(text, a, SelectorEnd(text, a) - 1)
\* a guest fragment that neither attempt compiles
Invalid(code, stub) == ~Syntax(code, stub).expr /\ ~Syntax(code, stub).stmt
BadSegs(text) ==
  {a \in SegStarts(text) :
     /\ IsPseudoJs(trim(SegAt(text, a)))
     /\ Invalid(Slice(trim(SegAt(text, a)), 5, Len(trim(SegAt(text, a))) - 1), <<>>)}
\* the guest fragment of a node that fails validation, and the offset in
\* the document text of the node at which it begins
FragmentOf(n) ==
  CASE n.kind = "selector" ->
         LET core == trim(SegAt(n.text, Least(BadSegs(n.text))))
         IN Slice(core, 5, Len(core) - 1)
    [] n.kind = "value" -> Slice(n.text, declMarker(n.text), Len(n.text))
    [] OTHER -> n.text
FragmentAt(n) ==
  CASE n.kind = "selector" ->
         LET a == Least(BadSegs(n.text))
             seg == SegAt(n.text, a)
         IN (a - 1) + (Len(seg) - Len(trimStart(seg))) + 5
    [] n.kind = "value" -> Len(n.hack \o DeclProp \o DeclBetween) + declMarker(n.text)
    [] OTHER -> 4
\* the index within a fragment of the token that makes it invalid: the
\* second of two identifiers in a row, or a parenthesis that closes nothing
BadToken(code) ==
  IF code = <<"x", " ", "x">> THEN 2 ELSE indexOf(code, <<")">>, 0)

\* C17: with the auxiliary parser at hand, a syntax error in a guest
\* fragment is reported at the document position of the invalid token, for
\* block-level fragments, property values and :@js selectors alike.
PositionAccurate ==
  (/\ status = "failed"
   /\ res.err.message = "SyntaxError"
   /\ inp.acorn = "present"
   /\ BadToken(FragmentOf(inp)) >= 0) =>
    res.err.offset = inp.start + FragmentAt(inp) + BadToken(FragmentOf(inp))


\* the frames of the stack that map to a document source with a position
DocFrames == {i \in DOMAIN inp.frames : inp.frames[i].k = "doc"}

\* C18: the position evaluate reports is that of the topmost frame of the
\* stack that maps to a document source; without such a frame, that of the
\* tag on the error if it maps; otherwise none, and the message says that
\* the error occurred in generated code or that the place is unknown.
PositionPriority ==
  status = "reported" =>
    IF DocFrames # {}
      THEN res.report.note = "" /\ res.report.at = inp.frames[Least(DocFrames)].at
    ELSE IF inp.tag.k = "doc"
      THEN res.report.note = "" /\ res.report.at = inp.tag.at
    ELSE /\ res.report.at = 0 - 1
         /\ res.report.note \in
              {"error occurred in the middle of generated code probably due to bug",
               "failed to determine where the error happened"}

\* a frame of generated code above a frame that maps, and a tag that maps
\* to another place: the frame's place is reported
StackBeatsTag ==
  /\ status = "reported"
  /\ Len(inp.frames) >= 2
  /\ inp.frames[1].k = "gen"
  /\ inp.frames[2].k = "doc"
  /\ inp.tag.k = "doc"
  /\ res.report.at = inp.frames[2].at


\* an error arrives in the program of a container that holds guest code
ErrorArrives ==
  /\ ctl.m = "throw" /\ ctl.k = Len(stk) /\ ctl.k > 0
  /\ Top.f = "gen"
  /\ HasCode(GKids(Top), Top.inAtJs)
\* the program then hands EndJs(false) to its consumer and keeps the error
EmitsEndJs ==
  ErrorArrives =>
    /\ ctl' = CItem(Top.own, EndJs(FALSE))
    /\ Len(stk') = Len(stk)
    /\ stk'[Len(stk)].pc = "rethrow"
    /\ stk'[Len(stk)].caught = ctl.e
\* and, resumed, throws the same error to its consumer with the tag
Rethrows(tag) ==
  (ctl.m = "run" /\ stk # <<>> /\ Top.f = "gen" /\ Top.pc = "rethrow") =>
    /\ ctl'.m = "throw"
    /\ ctl'.k = Top.own
    /\ ctl'.e.kind = Top.caught.kind
    /\ ctl'.e.of = Top.caught.of
    /\ ctl'.e.pos = tag

\* C19 as stated: the error is re-raised tagged with the cursor of the
\* container whose program caught it.
RethrowTagged == [][EmitsEndJs /\ Rethrows(Pos(Top.cursor))]_vars

\* C19: an error thrown inside the program of a container with guest code
\* makes the program hand one EndJs(false) to its consumer and then re-raise
\* the same error, tagged with the container's cursor if the error is an
\* object that carries no tag yet, and as it is otherwise.
RethrowTaggedOnce ==
  [][EmitsEndJs /\ Rethrows(IF Top.caught.obj /\ ~Top.caught.pos.has
                              THEN Pos(Top.cursor) ELSE Top.caught.pos)]_vars

\* an error thrown in a rule's body left run() with the tag of the rule's
\* program, the root's program having re-raised it
InnerTagKept ==
  /\ status = "error"
  /\ doc \in ThrowDocs
  /\ Len(doc) = 2
  /\ failure.obj
  /\ failure.pos = Pos(<<2, 2>>)


\* the node holds no guest code: no :@js selector, no @js value, no @js rule
NoGuestCode(n) ==
  CASE n.kind = "selector" ->
         \A a \in SegStarts(n.text) : ~IsPseudoJs(trim(SegAt(n.text, a)))
    [] n.kind = "value" -> declMarker(n.text) < 0
    [] n.kind = "guest" -> FALSE
    [] OTHER -> TRUE
Untouched == status # "failed" /\ out = [st |-> "orig", nodes |-> inp.text]

\* C20 as stated: every document without guest code compiles to a program
\* whose run() leaves the document as it was.
NoOpRoundTrip == NoGuestCode(inp) => Untouched

\* C20: every document without guest code, without the marker in a
\* selector and without the marker outside quoted strings elsewhere
\* compiles to a program whose run() does nothing, so the document after
\* run() is the document before it.
NoOpRoundTripOfValid ==
  (/\ NoGuestCode(inp)
   /\ Appearances(inp, FALSE) = {}
   /\ inp.kind = "selector" => ~includes(inp.text, AtJs)) => Untouched

\* a node with the marker inside a quoted string went through untouched
QuotedMarkerUntouched ==
  /\ status = "ok"
  /\ NoGuestCode(inp)
  /\ inp.kind = "value"
  /\ includes(inp.text, AtJs)
  /\ out = [st |-> "orig", nodes |-> inp.text]


\* --- C21
\* a Loc whose characters take successive positions of the document
Bears(loc) == loc.term = "src" /\ ~HasNullOffset(loc.offs)
\* the position a Code stands for, given the position it is entered at
Resolve(loc, at) ==
  IF loc.term = "relative"
    THEN [source |-> at.source, offset |-> at.offset + SumOffsets(loc.offs)]
  ELSE [source |-> loc.term, offset |-> SumOffsets(loc.offs)]
\* the characters of the flattened text of a Code, in order; each with the
\* Code it is written in (nid, its path from the root, and own, its Loc), its
\* index in the flattened text of that Code (idx), the number of characters
\* before it in that text that take a position of their own (adv), and the
\* position that Code was entered at (at): the position of the enclosing
\* Code, advanced by the characters of it that precede and take a position
RECURSIVE CharsFrom(_, _, _, _, _, _)
CharsOf(node, nid, at) == CharsFrom(node, nid, at, 1, 0, 0)
CharsFrom(node, nid, at, i, idx, adv) ==
  IF i > Len(node.content) THEN <<>>
  ELSE LET it == node.content[i]
           here == Resolve(node.source, at)
       IN CASE it.t = "hole" -> CharsFrom(node, nid, at, i + 1, idx, adv)
            [] it.t = "text" ->
                 [j \in 1..it.len |->
                    [nid |-> nid, own |-> node.source, idx |-> idx + j - 1,
                     adv |-> adv + (IF Bears(node.source) THEN j - 1 ELSE 0),
                     at |-> at]]
                   \o CharsFrom(node, nid, at, i + 1, idx + it.len,
                                adv + (IF Bears(node.source) THEN it.len ELSE 0))
            [] OTHER ->
                 LET sub == CharsOf(it, Append(nid, i),
                                    [source |-> here.source, offset |-> here.offset + adv])
                 IN sub \o CharsFrom(node, nid, at, i + 1, idx + Len(sub),
                                     adv + Cardinality({k \in 1..Len(sub) : Bears(sub[k].own)}))
Chars == CharsOf(inp, <<>>, Unmapped)
Forced == status = "forced"
\* C21 as stated: a character of a Code with a chain of numbers to a
\* source is mapped to the sum of the chain plus its index in the flattened
\* text of that Code
OffsetIsSumPlusIndex ==
  Forced =>
    \A p \in 1..Len(Chars) :
      Bears(Chars[p].own) =>
        res.map[p] = [source |-> "src",
                      offset |-> SumOffsets(Chars[p].own.offs) + Chars[p].idx]
\* C21, amended: (a) a character of a Code with a chain of numbers to a
\* source is mapped to the sum of the chain plus the number of characters
\* before it, in the flattened text of that Code, that take a position of
\* their own; (b) with a null offset in the chain every character written in
\* that Code is mapped to the same position, the sum of the other offsets;
\* (c) every character written in a 'relative' Code is mapped to the position
\* of the enclosing Code advanced by the characters of it that precede the
\* 'relative' Code and take a position of their own; (d) without a source
\* nothing is mapped
OffsetIsSumPlusAdvance ==
  Forced =>
    /\ Len(res.map) = Len(Chars)
    /\ \A p \in 1..Len(Chars) :
         LET c == Chars[p]
         IN CASE Bears(c.own) ->
                   res.map[p] = [source |-> "src",
                                 offset |-> SumOffsets(c.own.offs) + c.adv]
              [] c.own.term = "src" ->
                   /\ res.map[p] = [source |-> "src", offset |-> SumOffsets(c.own.offs)]
                   /\ \A q \in 1..Len(Chars) :
                        Chars[q].nid = c.nid => res.map[q] = res.map[p]
              [] c.own.term = "relative" /\ c.at.source = "src" ->
                   res.map[p] = [source |-> "src",
                                 offset |-> c.at.offset + SumOffsets(c.own.offs)]
              [] OTHER -> res.map[p] = Unmapped
\* a text after a 'relative' Code in a Code with a source, a Code with a
\* null offset holding two characters at different indexes, and a 'relative'
\* Code after a character with a position have all been mapped
AdvanceSeen ==
  /\ Forced
  /\ \E p \in 1..Len(Chars) :
       Bears(Chars[p].own) /\ Chars[p].adv < Chars[p].idx /\ Chars[p].adv > 0
  /\ \E p, q \in 1..Len(Chars) :
       /\ p < q /\ Chars[p].nid = Chars[q].nid
       /\ HasNullOffset(Chars[p].own.offs) /\ Chars[p].own.term = "src"
       /\ SumOffsets(Chars[p].own.offs) > 0
  /\ \E p \in 1..Len(Chars) :
       /\ Chars[p].own.term = "relative" /\ Chars[p].at.source = "src"
       /\ Chars[p].at.offset > 0

\* --- C22
\* what an iterable enumerates, and the values that are no iterables met
\* when iterables are entered as they are reached, depth first, left to right
ItemsOf(v) == IF v.ai # "absent" THEN v.aitems ELSE v.sitems
RECURSIVE FlatItems(_)
RECURSIVE FlatSeq(_, _)
FlatItems(v) == IF isIterable(v) THEN FlatSeq(ItemsOf(v), 1) ELSE <<v>>
FlatSeq(items, i) ==
  IF i > Len(items) THEN <<>> ELSE FlatItems(items[i]) \o FlatSeq(items, i + 1)
\* the nodes of one such value by itself
NodesOf(v) ==
  IF isPlainObject(v) THEN interpretObject(v, <<>>, PosNone).nodes
  ELSE IF isChildNode(v) THEN <<reflect(v, <<>>)>>
  ELSE <<>>
RECURSIVE NodesOfAll(_, _, _)
NodesOfAll(vs, i, n) ==
  IF i > n THEN <<>> ELSE NodesOf(vs[i]) \o NodesOfAll(vs, i + 1, n)
\* the index of the first value that cannot be interpreted, 0 if none
FirstBad(vs) ==
  IF \A i \in 1..Len(vs) : isInterpretable(vs[i]) THEN 0
  ELSE CHOOSE i \in 1..Len(vs) :
         /\ ~isInterpretable(vs[i])
         /\ \A j \in 1..(i - 1) : isInterpretable(vs[j])
RECURSIVE ForestAt(_, _)
ForestAt(nodes, path) ==
  IF path = <<>> THEN nodes ELSE ForestAt(nodes[Head(path)].kids, Tail(path))
RECURSIVE InheritedScope(_, _, _)
InheritedScope(nodes, path, scope) ==
  IF path = <<>> THEN scope
  ELSE InheritedScope(nodes[Head(path)].kids, Tail(path), nodes[Head(path)].file)
RECURSIVE Concat(_, _)
Concat(seqs, j) == IF j > Len(seqs) THEN <<>> ELSE seqs[j] \o Concat(seqs, j + 1)
Containers23 == {res.all[j].of : j \in DOMAIN res.all}
\* the blocks of one container, in the order they were made
\* (mainOf keeps the blocks with a body: each is given a leading 0 here, so
\* that all are kept)
BlocksOf(path) == mainOf([j \in DOMAIN res.all |->
                            [res.all[j] EXCEPT !.body = <<0>> \o @]], path, 1)
BodyOf(b) == Tail(b.body)
EnumeratedMustBeInterpretable ==
  (doc \in EnumeratingDocs /\ status = "ok") =>
    FirstBad(FlatItems(Injected)) = 0
\* C24 for an iterable met inside a mapping: interpretUnknown ends with the
\* error of the first enumerated value that is not interpretable, after the
\* nodes of the values before it
NestedEnumeratedMustBeInterpretable ==
  (status = "applied" /\ FirstBad(FlatItems(inp)) # 0) =>
    LET bad == FirstBad(FlatItems(inp))
    IN /\ res.err = Unexpected(FlatItems(inp)[bad], PosNone)
       /\ res.nodes = NodesOfAll(FlatItems(inp), 1, bad - 1)

\* --- C25
\* C25: whenever raws are merged into those collected so far, raws without
\* a semicolon leave the collected value as it was and a boolean replaces a
\* collected value that is undefined; and the container's own raws are merged
\* last: where the container has none the collected value is what it gets,
\* and where nothing was collected it keeps its own.
LaterRawsWin ==
  [][/\ (res'.i = res.i + 1 /\ inp.events[res.i].e = "done") =>
          /\ res'.last = "undef" => res'.raws = res.raws
          /\ (res.raws = "undef" /\ res'.last # "undef") => res'.raws = res'.last
     /\ status' = "appended" =>
          /\ inp.own = "undef" =>
               res'.semicolon = res.raws
          /\ (res.raws = "undef" /\ inp.own # "undef") => res'.semicolon = inp.own]_vars
\* a container without raws of its own has got the semicolon that was
\* collected first and kept when raws without one came later
EarlierKept ==
  /\ status = "appended"
  /\ inp.own = "undef"
  /\ Len(inp.events) = 3
  /\ inp.events[1] = NodeEvent
  /\ inp.events[2] = DoneEvent([semicolon |-> "false"])
  /\ inp.events[3] = DoneEvent([semicolon |-> "string"])
  /\ res.semicolon = "false"

\* --- C26
\* the fragments of the document that have a block, and the points of their
\* guest code at which the block is iterated: a consume, or the block handed
\* to mainLoop by a yield or as the fragment's value
WithBlock == {i \in DOMAIN doc : doc[i].kind = "js" /\ doc[i].hasBlock}
IteratedAt(i) ==
  {<<i, k>> : k \in {k \in DOMAIN doc[i].ops :
                       \/ doc[i].ops[k].op = "consume"
                       \/ doc[i].ops[k].op = "yield" /\ doc[i].ops[k].v.t = "block"}}
    \cup (IF doc[i].expr /\ doc[i].val.t = "block"
            THEN {<<i, Len(doc[i].ops) + 1>>} ELSE {})
\* the side effects of the guest code inside the block, in order, that the
\* iteration begun at t has caused
RECURSIVE EffectsUnder(_, _)
EffectsUnder(t, j) ==
  IF j > Len(effects) THEN <<>>
  ELSE (IF Len(effects[j]) > Len(t) /\ IsPrefix(t, effects[j])
          THEN <<SubSeq(effects[j], Len(t) + 1, Len(effects[j]))>> ELSE <<>>)
         \o EffectsUnder(t, j + 1)
\* the nodes of the new document that were made inside the block of child i
FromBlock(i) ==
  SelectSeq(out.nodes, LAMBDA n : Len(n.src) > 1 /\ n.src[1] = i)
\* C26: guest code inside a block attached to an @js runs only in an
\* iteration of the block and after the guest code before the point of
\* iteration; every iteration runs the block's code from its start, with the
\* same side effects as every other; and the nodes a block gives when it is
\* injected twice are two equal copies.
BlockLazyAndFresh ==
  \A i \in WithBlock :
    /\ \A j \in DOMAIN effects :
         (Len(effects[j]) > 2 /\ effects[j][1] = i) =>
           /\ SubSeq(effects[j], 1, 2) \in IteratedAt(i)
           /\ \A k \in 1..(effects[j][2] - 1) :
                doc[i].ops[k].op = "eff" => \E j2 \in 1..(j - 1) : effects[j2] = <<i, k>>
           /\ \A j2 \in 1..(j - 1) :
                (Len(effects[j2]) = 2 /\ effects[j2][1] = i) => effects[j2][2] < effects[j][2]
    /\ status = "ok" =>
         /\ \A t1, t2 \in IteratedAt(i) : EffectsUnder(t1, 1) = EffectsUnder(t2, 1)
         /\ \A t \in IteratedAt(i) :
              (doc[i].kids # <<>> /\ doc[i].kids[1].kind = "js") =>
                /\ EffectsUnder(t, 1) # <<>>
                /\ EffectsUnder(t, 1)[1] = <<1, 1>>
         /\ IteratedAt(i) = {} => FromBlock(i) = <<>>
         /\ doc \in TwiceDocs =>
              /\ Len(out.nodes) % 2 = 0
              /\ \A x \in 1..(Len(out.nodes) \div 2) :
                   out.nodes[x] = out.nodes[x + Len(out.nodes) \div 2]
\* a block with guest code was injected twice: its code has run twice and
\* the document has the two copies of its nodes
BlockInjectedTwice ==
  /\ status = "ok"
  /\ doc \in TwiceDocs
  /\ Len(out.nodes) = 4
  /\ EffectsUnder(<<1, 1>>, 1) = <<<<1, 1>>, <<2, 1>>>>
  /\ EffectsUnder(<<1, 3>>, 1) = <<<<1, 1>>, <<2, 1>>>>
  /\ \E j \in DOMAIN effects : effects[j] = <<1, 2>>

\* --- C27
\* C27: a mainLoop never returns while it holds a function: when its last
\* iterator is done, every function it took as pending has been called or
\* was dropped at an EndJs(false).
NoPendingAtReturn ==
  (ctl.m = "done" /\ ~HasIter(stk, ctl.k)) => stk[ctl.k].func = None

\* --- C28
\* C28: a function held by mainLoop is called without an argument or with a
\* value that guest code emitted: never with a BeginJs or EndJs marker and
\* never with the clone of a node of the document.
ArgumentsAreGuestValues ==
  \A j \in DOMAIN calls :
    \/ calls[j].arg = None
    \/ /\ calls[j].arg.t \notin {"BeginJs", "EndJs"}
       /\ ~(calls[j].arg.t = "node" /\ calls[j].arg.src # <<>>)

\* --- C29
\* C29: the root's children are replaced only in the step in which run()
\* resolves, with the complete new list; while run() is running and after it
\* has thrown, the root has the children it had when run() was called.
ReplacedOnlyOnSuccess ==
  [][/\ out' # out => (status = "running" /\ status' = "ok" /\ out'.st = "replaced")
     /\ status' \in {"running", "error"} => out' = [st |-> "orig", nodes |-> <<>>]]_vars
\* run() has thrown after a node of the new list had been produced
ThrownAfterNode ==
  /\ status = "error"
  /\ out.st = "orig"
  /\ doc[1].kind = "js" /\ Len(doc[1].ops) = 2
  /\ doc[1].ops[1] = Op("yield", DeclObj)
  /\ doc[1].ops[2] = Op("throw", ErrObj)

\* --- C30
\* the fragment whose guest code threw, in a document whose throwing
\* fragment has a side effect just before its throw
ThrowingFragment == SubSeq(effects[Len(effects)], 1, Len(effects[Len(effects)]) - 1)
\* C30: the error that leaves run() is the thrown value; a thrown object
\* carries the cursor of the innermost container, that of the fragment that
\* threw, whatever containers re-raised it on its way out; a thrown value
\* that is no object carries no tag; and getErrorPos gives the tag and
\* removes it, so that asking again gives nothing.
TagSetOnceReadOnce ==
  /\ (status \in {"error", "caught"} /\ ~failure.obj) => ~failure.pos.has
  /\ (status = "error" /\ doc \in ThrowDocs) =>
       /\ failure.kind = "guest"
       /\ failure.of \in {ErrObj, StrV(T("x"))}
       /\ failure.obj <=> failure.of = ErrObj
       /\ failure.obj => failure.pos = Pos(ThrowingFragment)
  /\ status = "caught" =>
       /\ ~failure.pos.has
       /\ getErrorPos(failure).pos = PosNone
       /\ getErrorPos(failure).error = failure
       /\ (doc \in ThrowDocs /\ failure.obj) => res.errorPos = Pos(ThrowingFragment)
       /\ ~failure.obj => res.errorPos = PosNone
\* the tag of an error thrown in a rule below the root's second child was
\* read by evaluate, as that of the throwing fragment, and is gone
TagReadAndGone ==
  /\ status = "caught"
  /\ doc \in ThrowDocs
  /\ Len(doc) = 2
  /\ failure.obj
  /\ res.errorPos = Pos(<<2, 2>>)
  /\ ~failure.pos.has
====
